---- MODULE Spec2Model ----
(***************************************************************************)
(* The SMTP-over-AT-modem client of src/src/SMTP.cpp as a state machine.   *)
(*                                                                         *)
(* Text is kept as TLA+ strings and handled byte by byte (Len, SubSeq,     *)
(* \o).  The serial link is the string rx of bytes the modem has sent and  *)
(* the program has not read yet.  The modem and the SMTP server behind it  *)
(* are the environment: every exchange draws the modem's answer from a     *)
(* small set of byte strings, and what the program makes of the answer is  *)
(* computed the way the code computes it (substring search while reading). *)
(***************************************************************************)
EXTENDS Integers, Sequences, FiniteSets, TLC

\* ------------------------------------------------------------------ bounds

\* receive polls that fit into one cchRecvChunk timeout (ms / POLL_INTERVAL_MS)
MaxPolls == 2
\* setter calls in one behaviour
MaxSets == 3

\* ------------------------------------------------------------------ text

CRLF == "\r\n"

\* String::indexOf(t) >= 0
Contains(s, t) ==
  \E i \in 1..(Len(s) - Len(t) + 1) : SubSeq(s, i, i + Len(t) - 1) = t

\* String::indexOf(t, from), 1-based, 0 when t does not occur at or after from
IndexOf(s, t, from) ==
  LET hits == {i \in from..(Len(s) - Len(t) + 1) : SubSeq(s, i, i + Len(t) - 1) = t}
  IN IF hits = {} THEN 0 ELSE CHOOSE i \in hits : \A j \in hits : i <= j

\* String::startsWith
StartsWith(s, t) == Len(s) >= Len(t) /\ SubSeq(s, 1, Len(t)) = t
EndsWith(s, t) == Len(s) >= Len(t) /\ SubSeq(s, Len(s) - Len(t) + 1, Len(s)) = t

\* isspace() of the bytes that occur here
IsSpace(c) == c \in {" ", "\t", "\n", "\r", "\f"}

\* String::trim: whitespace removed at both ends
Trim(s) ==
  LET keep == {i \in 1..Len(s) : ~IsSpace(SubSeq(s, i, i))}
  IN IF keep = {} THEN ""
     ELSE LET lo == CHOOSE i \in keep : \A j \in keep : i <= j
              hi == CHOOSE i \in keep : \A j \in keep : i >= j
          IN SubSeq(s, lo, hi)

\* String(int) for a non-negative number
RECURSIVE Dec(_)
Dec(n) ==
  LET d == SubSeq("0123456789", (n % 10) + 1, (n % 10) + 1)
  IN IF n < 10 THEN d ELSE Dec(n \div 10) \o d

\* a const char* argument: the empty tuple is the null pointer
Null == <<>>
Ptr(s) == <<s>>
\* p ? p : ""
OrEmpty(p) == IF p = Null THEN "" ELSE p[1]

\* ------------------------------------------------------------------ state

VARIABLES
  apn, gmail, appPass, to, toName, fromName, subject, body,  \* SMTP's fields
  rx,        \* bytes the modem has sent that no read has consumed yet
  mock,      \* TRUE: the modem answers with the minimal accepting token
  netOpen,   \* modem: PDP network opened
  tlsOn,     \* modem: TLS subsystem started
  chOpen,    \* modem: channel LINK_ID connected
  pc,        \* where sendEmail stands ("idle": not running)
  at,        \* bringUpPDP, cchStart: index of the next command of the function
  step,      \* smtpSession: index of the reply awaited / the line to send
  ok,        \* sendEmail: the value it is about to return
  call,      \* what the running (or last) sendEmail call has done
  nSet       \* setter calls so far, MaxSets once a message has been sent

cfgVars == <<apn, gmail, appPass, to, toName, fromName, subject, body>>
modemVars == <<netOpen, tlsOn, chOpen>>
vars == <<apn, gmail, appPass, to, toName, fromName, subject, body,
          rx, mock, netOpen, tlsOn, chOpen, pc, at, step, ok, call, nSet>>

\* SMTP::b64 called on its own
VARIABLES
  b64in,     \* the argument in
  b64out     \* the returned string, Null before the call

b64Vars == <<b64in, b64out>>

\* one wait loop of SMTP (waitFor, cchRecvChunk) against the clock
VARIABLES
  wfn,       \* the function: "waitFor" or "cchRecvChunk"
  wpc,       \* its position: "loop", "read", "poll", "last", "done"
  wlink,     \* the bytes pending on the link: "t" completes the token, "x" not
  wleft,     \* ticks until millis() - t0 reaches ms
  pleft,     \* ticks until millis() - t1 reaches 150
  wfound,    \* the bytes read so far contain the token (the marker)
  wret       \* the returned value: "none" while running, "true", "false"

waitVars == <<wfn, wpc, wlink, wleft, pleft, wfound, wret>>

\* GSM_Test on its modem link
VARIABLES
  glink,     \* bytes of the modem that are pending on the link, unread
  gfly,      \* bytes of an earlier answer that have not arrived yet
  gpc,       \* where the running GSM_Test function stands ("idle": none)
  gcall,     \* what the running (or last) function has done
  gx         \* the last sendATCommand call

gsmVars == <<glink, gfly, gpc, gcall, gx>>

\* GSMCache of main.cpp against the clock
VARIABLES
  cnow,      \* millis(), a 32-bit unsigned value
  gsmCache,  \* the fields of the cache
  cage,      \* ms really passed since lastUpdate was set, up to AgeCap
  cticks,    \* clock advances so far
  clast      \* the last updateSignal / updateNetwork call

cacheVars == <<cnow, gsmCache, cage, cticks, clast>>

\* the mode button of main.cpp: drdButtonISR, checkDRD, processButtonPress
VARIABLES
  bnow,      \* millis()
  pin,       \* the level of DRD_BUTTON_PIN: "HIGH" released, "LOW" pressed
  bticks,    \* clock advances so far
  btn,       \* the drd... globals and the statics of the three functions
  bhist      \* the confirmed presses: the last one and the one before

btnVars == <<bnow, bticks, pin, btn, bhist>>

\* DRD_Manager over resets of the device
VARIABLES
  prefs,     \* the "drd" namespace of the non-volatile storage
  mgr,       \* this boot: millis(), the object's fields, the statics of loop
  boots      \* what the earlier boot and this boot did

drdVars == <<prefs, mgr, boots>>

\* one SMTP::cchRecvChunk call against millis()
VARIABLES
  rnow,      \* millis(), a 32-bit unsigned value
  rcall      \* the locals of the call, its position and what it has done

pollVars == <<rnow, rcall>>

\* the variables of the other components, which a step of one leaves alone
mainVars == <<cacheVars, btnVars, drdVars, pollVars>>
notSmtp == <<b64Vars, waitVars, gsmVars, mainVars>>
notB64 == <<vars, waitVars, gsmVars, mainVars>>
notWait == <<vars, b64Vars, gsmVars, mainVars>>
notGsm == <<vars, b64Vars, waitVars, mainVars>>
libVars == <<vars, b64Vars, waitVars, gsmVars>>
notCache == <<libVars, btnVars, drdVars, pollVars>>
notBtn == <<libVars, cacheVars, drdVars, pollVars>>
notDrd == <<libVars, cacheVars, btnVars, pollVars>>
notPoll == <<libVars, cacheVars, btnVars, drdVars>>

LINK_ID == 0

\* no cchSendRaw call yet
NoSend == [sent |-> FALSE, prompted |-> FALSE, wrote |-> FALSE, acked |-> FALSE,
           ok |-> FALSE]

\* no AT / ATAcceptAny exchange yet
NoAT == [fn |-> "none", cmd |-> "", writes |-> 0, tokens |-> <<>>, seen |-> "",
         own |-> "", read |-> "", ok |-> FALSE]

\* no cchRecvChunk call yet
NoRecv == [ok |-> FALSE, out |-> "", all |-> "", polls |-> 0, code |-> "",
           hit |-> FALSE]

\* the record of a call that has done nothing yet
NoCall ==
  [ret     |-> "none",   \* "none" while running, then "true" / "false"
   used    |-> FALSE,    \* a transport operation (a write, a wait) was made
   cmds    |-> <<>>,     \* control commands written (bring-up, TLS, teardown)
   pdp     |-> "none",   \* what bringUpPDP returned: "ok" / "fail"
   already |-> FALSE,    \* the modem answered AT+NETOPEN with "already opened"
   tls     |-> "none",   \* what cchStart returned
   open    |-> "none",   \* what cchOpen returned
   openErr |-> FALSE,    \* the modem answered AT+CCHOPEN with a bare ERROR
   session |-> FALSE,    \* smtpSession was entered
   sess    |-> "none",   \* what smtpSession returned: "true" / "false"
   tdFail  |-> 0,        \* teardown commands the modem did not answer with OK
   codes   |-> <<>>,     \* status codes smtpExpect has matched, in order
   lines   |-> <<>>,     \* byte blocks written to the channel after a prompt
   reqs    |-> <<>>,     \* the AT+CCHSEND commands written, in order
   sx      |-> NoSend,   \* the last cchSendRaw call
   ax      |-> NoAT,     \* the last AT / ATAcceptAny exchange
   rcv     |-> NoRecv,   \* the cchRecvChunk call that has just returned
   recvs   |-> 0,        \* cchRecvChunk calls so far
   cfgFail |-> FALSE,    \* a configuration command of the function that is
                         \* running or has just returned was not answered OK
   sendReq |-> 0,        \* AT+CCHSEND requests written
   prompts |-> 0,        \* of these, the ones the prompt arrived for
   sendOk  |-> 0,        \* cchSendRaw calls that returned true
   nomatch |-> 0,        \* step whose chunk had no line with the code (0: none)
   reqAtNomatch |-> 0]   \* sendReq when that happened

\* ------------------------------------------------------------------ transport

\* A wait on the stream s (what is pending on the link plus what arrives
\* before the timeout) reads byte by byte and returns true at the byte that
\* completes a token; the bytes after it stay on the link.  With no token in
\* s it reads all of s and returns false when the time is up.

\* the number of bytes read when token is found, 0 when it is not in s
ReadLen(s, token) ==
  LET i == IndexOf(s, token, 1)
  IN IF i = 0 THEN 0 ELSE i + Len(token) - 1

\* the bytes left on the link after n > 0 bytes were read, none on a timeout
Rest(s, n) == IF n > 0 THEN SubSeq(s, n + 1, Len(s)) ELSE ""

\* the bytes a wait has read from s: the first n > 0, all of s on a timeout
Taken(s, n) == IF n > 0 THEN SubSeq(s, 1, n) ELSE s

\* SMTP::waitFor(token, ms) on the stream s; token is never empty
waitFor(s, token) ==
  LET n == ReadLen(s, token)
  IN [ok |-> n > 0, rest |-> Rest(s, n), read |-> Taken(s, n)]

\* a wait that reads on to the end of s after a token was found
waitAnyDrain(s, tokens) ==
  LET hits == {ReadLen(s, tokens[i]) : i \in {j \in 1..Len(tokens) : tokens[j] # ""}}
             \ {0}
  IN [ok |-> hits # {}, rest |-> "", read |-> s]

\* the wait loop of SMTP::ATAcceptAny on the stream s: the first byte at
\* which any non-empty token is complete
waitAny(s, tokens) ==
  LET hits == {ReadLen(s, tokens[i]) : i \in {j \in 1..Len(tokens) : tokens[j] # ""}}
             \ {0}
      n == IF hits = {} THEN 0 ELSE CHOOSE x \in hits : \A y \in hits : x <= y
  IN [ok |-> n > 0, rest |-> Rest(s, n), read |-> Taken(s, n)]

\* A modem answer: the bytes that arrive within the wait's timeout and the
\* bytes that arrive after it.
Reply(now, late) == [now |-> now, late |-> late]

\* an exchange that writes the command again after a wait that failed
ATRetry(link, expect, r) ==
  LET w == waitFor(link \o r.now, expect)
  IN [ok |-> w.ok, rx |-> w.rest \o r.late, writes |-> IF w.ok THEN 1 ELSE 2,
      tokens |-> <<expect>>, seen |-> link \o r.now, own |-> r.now,
      read |-> w.read]

\* SMTP::AT(cmd, expect): the command line is written, then waitFor; r is the
\* modem's answer and link the bytes pending before it.  ok: the returned
\* value; rx: the bytes pending afterwards; writes: how many times the command
\* line was written; seen: the bytes on the link up to the timeout; own: of
\* these, the modem's answer to this command; read: the bytes the wait
\* accumulated.
AT(link, expect, r) ==
  LET w == waitFor(link \o r.now, expect)
  IN [ok |-> w.ok, rx |-> w.rest \o r.late, writes |-> 1,
      tokens |-> <<expect>>, seen |-> link \o r.now, own |-> r.now,
      read |-> w.read]

\* SMTP::ATAcceptAny(cmd, tokens, n)
ATAcceptAny(link, tokens, r) ==
  LET w == waitAny(link \o r.now, tokens)
  IN [ok |-> w.ok, rx |-> w.rest \o r.late, writes |-> 1,
      tokens |-> tokens, seen |-> link \o r.now, own |-> r.now,
      read |-> w.read]

\* the command cmd, as many times as the exchange x wrote it
Written(cmd, x) == [i \in 1..x.writes |-> cmd]

\* the record of the exchange x of the function fn with the command cmd
Asked(fn, cmd, x) ==
  [fn |-> fn, cmd |-> cmd, writes |-> x.writes, tokens |-> x.tokens,
   seen |-> x.seen, own |-> x.own, read |-> x.read, ok |-> x.ok]

\* ------------------------------------------------------------------ base64

B64ABC == "ABCDEFGHIJKLMNOPQRSTUVWXYZabcdefghijklmnopqrstuvwxyz0123456789+/"

\* the printable ASCII characters from '#' (35) to '[' (91), from ']' (93) to
\* '_' (95) and from 'a' (97) to '~' (126), in code order
AsciiLo == "#$%&'()*+,-./0123456789:;<=>?@ABCDEFGHIJKLMNOPQRSTUVWXYZ["
AsciiMid == "]^_"
AsciiHi == "abcdefghijklmnopqrstuvwxyz{|}~"

\* the character codes: [c |-> (uint8_t)c]
Code ==
  LET tab(t, base) == {<<SubSeq(t, i, i), base + i>> : i \in 1..Len(t)}
      all == tab(AsciiLo, 34) \cup tab(AsciiMid, 92) \cup tab(AsciiHi, 96)
             \cup {<<"\t", 9>>, <<"\n", 10>>, <<"\r", 13>>, <<" ", 32>>, <<"!", 33>>}
  IN [c \in {p[1] : p \in all} |-> (CHOOSE p \in all : p[1] = c)[2]]

\* (uint8_t)c
Ord(c) == Code[c]

\* 1 << n
RECURSIVE Pow2(_)
Pow2(n) == IF n = 0 THEN 1 ELSE 2 * Pow2(n - 1)

\* The accumulator (int val) is 32 bits wide; it is kept as its two 16-bit
\* halves [hi, lo], value hi * 2^16 + lo, bit pattern of the value.

\* (val << 8) + c in an accumulator of 8 bits
Shl8AddByte(val, c) == [hi |-> 0, lo |-> (val.lo * 256 + c) % 256]

\* (val << 8) + c, wrapping at 32 bits
Shl8Add(val, c) ==
  LET x == val.lo * 256 + c
  IN [hi |-> (val.hi * 256 + (x \div Pow2(16))) % Pow2(16), lo |-> x % Pow2(16)]

\* (val >> k) & 0x3F, for 0 <= k <= 10
Shr6(val, k) ==
  (((val.hi % Pow2(k)) * Pow2(16 - k)) + (val.lo \div Pow2(k))) % 64

\* B64ABC[x]
B64Char(x) == SubSeq(B64ABC, x + 1, x + 1)

\* the while loop of b64: emit 6-bit groups while valb >= 0
RECURSIVE B64Emit(_, _, _)
B64Emit(out, val, valb) ==
  IF valb >= 0
  THEN B64Emit(out \o B64Char(Shr6(val, valb)), val, valb - 6)
  ELSE [out |-> out, valb |-> valb]

\* the for loop of b64 over the bytes of in, from position i
RECURSIVE B64Loop(_, _, _, _, _)
B64Loop(in, i, out, val, valb) ==
  IF i > Len(in)
  THEN [out |-> out, val |-> val, valb |-> valb]
  ELSE LET v == Shl8Add(val, Ord(SubSeq(in, i, i)))
           e == B64Emit(out, v, valb + 8)
       IN B64Loop(in, i + 1, e.out, v, e.valb)

B64PadNone(out) == out

\* while (out.length() % 4) out += '='
RECURSIVE B64Pad(_)
B64Pad(out) == IF Len(out) % 4 # 0 THEN B64Pad(out \o "=") ELSE out

\* SMTP::b64
b64(in) ==
  LET l == B64Loop(in, 1, "", [hi |-> 0, lo |-> 0], -6)
      tail == IF l.valb > -6
              THEN l.out \o B64Char(Shr6(Shl8Add(l.val, 0), l.valb + 8))
              ELSE l.out
  IN B64Pad(tail)

\* The same encoder with an accumulator that never loses a bit: val is a
\* number of any size, kept as its 16-bit digits, lowest first.

\* the digits of (val << 8) + c from digit i on, c carried in from below
RECURSIVE WideShl8(_, _, _)
WideShl8(val, i, c) ==
  IF i > Len(val)
  THEN (IF c > 0 THEN <<c>> ELSE <<>>)
  ELSE LET x == val[i] * 256 + c
       IN <<x % Pow2(16)>> \o WideShl8(val, i + 1, x \div Pow2(16))

\* (val << 8) + c
WideShl8Add(val, c) == WideShl8(val, 1, c)

\* digit i of val, 0 above its highest digit
WideDigit(val, i) == IF i <= Len(val) THEN val[i] ELSE 0

\* (val >> k) & 0x3F, for any k >= 0
WideShr6(val, k) ==
  LET q == k \div 16
      r == k % 16
  IN (((WideDigit(val, q + 2) % Pow2(r)) * Pow2(16 - r))
        + (WideDigit(val, q + 1) \div Pow2(r))) % 64

RECURSIVE WideEmit(_, _, _)
WideEmit(out, val, valb) ==
  IF valb >= 0
  THEN WideEmit(out \o B64Char(WideShr6(val, valb)), val, valb - 6)
  ELSE [out |-> out, valb |-> valb]

RECURSIVE WideLoop(_, _, _, _, _)
WideLoop(in, i, out, val, valb) ==
  IF i > Len(in)
  THEN [out |-> out, val |-> val, valb |-> valb]
  ELSE LET v == WideShl8Add(val, Ord(SubSeq(in, i, i)))
           e == WideEmit(out, v, valb + 8)
       IN WideLoop(in, i + 1, e.out, v, e.valb)

\* b64 with the unbounded accumulator
b64Wide(in) ==
  LET l == WideLoop(in, 1, "", <<>>, -6)
      tail == IF l.valb > -6
              THEN l.out \o B64Char(WideShr6(WideShl8Add(l.val, 0), l.valb + 8))
              ELSE l.out
  IN B64Pad(tail)

\* val of b64 after the bytes of in: the 32-bit accumulator, and the unbounded one
ValAfter(in) == B64Loop(in, 1, "", [hi |-> 0, lo |-> 0], -6).val
WideValAfter(in) == WideLoop(in, 1, "", <<>>, -6).val

\* ------------------------------------------------------------------ SMTP text

\* a scan that decides on the first non-empty piece
RECURSIVE ScanFirst(_, _, _)
ScanFirst(chunk, code, start) ==
  LET end == IndexOf(chunk, CRLF, start)
      line == IF end > 0 THEN SubSeq(chunk, start, end - 1)
                         ELSE SubSeq(chunk, start, Len(chunk))
      t == Trim(line)
  IN IF Len(t) > 0 THEN StartsWith(t, code)
     ELSE IF end = 0 THEN FALSE
     ELSE ScanFirst(chunk, code, end + 2)

\* SMTP::smtpExpect, the scan of the chunk from position start: the chunk is
\* cut at CR LF, each piece trimmed, and the first non-empty piece that starts
\* with code ends the scan with true
RECURSIVE ScanLines(_, _, _)
ScanLines(chunk, code, start) ==
  LET end == IndexOf(chunk, CRLF, start)
      line == IF end > 0 THEN SubSeq(chunk, start, end - 1)
                         ELSE SubSeq(chunk, start, Len(chunk))
      t == Trim(line)
  IN IF Len(t) > 0 /\ StartsWith(t, code) THEN TRUE
     ELSE IF end = 0 THEN FALSE
     ELSE ScanLines(chunk, code, end + 2)

\* the message block composed in SMTP::smtpSession
Payload ==
  LET fromN == IF Len(fromName) > 0 THEN fromName ELSE "ESP32"
      toN   == IF Len(toName) > 0 THEN toName ELSE "Recipient"
      subj  == IF Len(subject) > 0 THEN subject ELSE "No Subject"
  IN "From: " \o fromN \o " <" \o gmail \o ">\r\n"
     \o "To: " \o toN \o " <" \o to \o ">\r\n"
     \o "Subject: " \o subj \o "\r\n"
     \o "MIME-Version: 1.0\r\n"
     \o "Content-Type: text/plain; charset=UTF-8\r\n"
     \o "\r\n"
     \o body
     \o "\r\n.\r\n"

\* the status code smtpSession awaits at each step
Codes == <<"220", "250", "334", "334", "235", "250", "250", "354", "250", "221">>

SendBytesRcptFirst(k) ==
  CASE k = 1 -> "EHLO simcom" \o CRLF
    [] k = 2 -> "AUTH LOGIN" \o CRLF
    [] k = 3 -> b64(gmail) \o CRLF
    [] k = 4 -> b64(appPass) \o CRLF
    [] k = 5 -> "RCPT TO:<" \o to \o ">" \o CRLF
    [] k = 6 -> "MAIL FROM:<" \o gmail \o ">" \o CRLF
    [] k = 7 -> "DATA" \o CRLF
    [] k = 8 -> Payload
    [] k = 9 -> "QUIT" \o CRLF

\* the bytes smtpSession hands to cchSendRaw after step k's code was matched;
\* all but the message block go through cchSendLine, which appends CR LF
SendBytes(k) ==
  CASE k = 1 -> "EHLO simcom" \o CRLF
    [] k = 2 -> "AUTH LOGIN" \o CRLF
    [] k = 3 -> b64(gmail) \o CRLF
    [] k = 4 -> b64(appPass) \o CRLF
    [] k = 5 -> "MAIL FROM:<" \o gmail \o ">" \o CRLF
    [] k = 6 -> "RCPT TO:<" \o to \o ">" \o CRLF
    [] k = 7 -> "DATA" \o CRLF
    [] k = 8 -> Payload
    [] k = 9 -> "QUIT" \o CRLF

\* ------------------------------------------------------------------ modem

\* The modem is the environment.  Each operator below is the set of answers
\* it may give to one command in its present state: the bytes sent within
\* the timeout (now), the bytes sent after it (late), and its state after
\* the command.  The mock modem answers with the minimal accepting token.

\* the receive-notification marker cchRecvChunk looks for
Marker == "+CCHRECV: DATA,"

\* to a configuration command (ATE0, AT+CMEE, AT+CGDCONT, AT+CSOCKSETPN,
\* AT+CSSLCFG)
CfgReplies ==
  IF mock THEN {Reply("OK", "")}
  ELSE {Reply("\r\nOK\r\n", ""), Reply("\r\nERROR\r\n", "")}

\* to AT+NETOPEN
NetOpenReplies ==
  IF mock THEN {[now |-> "OK", late |-> "", net |-> TRUE]}
  ELSE IF netOpen
  THEN {[now |-> "\r\n+IP ERROR: Network is already opened\r\n\r\nERROR\r\n",
         late |-> "", net |-> TRUE]}
  ELSE {[now |-> "\r\nOK\r\n\r\n+NETOPEN: 0\r\n", late |-> "", net |-> TRUE],
        [now |-> "\r\nOK\r\n\r\n+NETOPEN: 1\r\n", late |-> "", net |-> FALSE],
        [now |-> "\r\nERROR\r\n", late |-> "", net |-> FALSE],
        [now |-> "", late |-> "", net |-> FALSE],
        \* the network comes up after the 20 s the code waits
        [now |-> "", late |-> "\r\n+NETOPEN: 0\r\n", net |-> TRUE]}

\* to AT+NETCLOSE
NetCloseReplies ==
  IF mock THEN {Reply("OK", "")}
  ELSE IF netOpen
  THEN {Reply("\r\nOK\r\n\r\n+NETCLOSE: 0\r\n", ""), Reply("", "\r\n+NETCLOSE: 0\r\n")}
  ELSE {Reply("\r\n+NETCLOSE: 2\r\n\r\nERROR\r\n", ""), Reply("", "")}

\* to AT+CCHSTART
StartReplies ==
  IF mock THEN {[now |-> "OK", late |-> "", tls |-> TRUE]}
  ELSE IF tlsOn
  THEN {[now |-> "\r\nERROR\r\n", late |-> "", tls |-> TRUE]}
  ELSE {[now |-> "\r\nOK\r\n\r\n+CCHSTART: 0\r\n", late |-> "", tls |-> TRUE],
        [now |-> "\r\nERROR\r\n", late |-> "", tls |-> FALSE],
        [now |-> "", late |-> "", tls |-> FALSE]}

\* to AT+CCHSTOP
StopReplies ==
  IF mock THEN {Reply("OK", "")}
  ELSE IF tlsOn
  THEN {Reply("\r\nOK\r\n\r\n+CCHSTOP: 0\r\n", ""), Reply("", "")}
  ELSE {Reply("\r\nERROR\r\n", ""), Reply("", "")}

\* to AT+CCHOPEN: the channel connects only over an open network with TLS on
OpenReplies ==
  IF mock THEN {[now |-> "OK", late |-> "", ch |-> TRUE]}
  ELSE (IF netOpen /\ tlsOn
        THEN {[now |-> "\r\nOK\r\n\r\n+CCHOPEN: 0,0\r\n", late |-> "", ch |-> TRUE]}
        ELSE {})
       \cup {[now |-> "\r\nERROR\r\n", late |-> "", ch |-> FALSE],
             [now |-> "", late |-> "", ch |-> FALSE]}

\* to AT+CCHCLOSE
CloseReplies ==
  IF mock THEN {Reply("OK", "")}
  ELSE IF chOpen
  THEN {Reply("\r\nOK\r\n\r\n+CCHCLOSE: 0,0\r\n", ""), Reply("", ""),
        \* the channel is closed after the 10 s the code waits
        Reply("", "\r\nOK\r\n\r\n+CCHCLOSE: 0,0\r\n")}
  ELSE {Reply("\r\nERROR\r\n", ""), Reply("", "")}

\* to AT+CCHSEND=<link>,<len>: the prompt, an error, or nothing
PromptReplies ==
  IF mock THEN {Reply(">", "")}
  ELSE (IF chOpen THEN {Reply("\r\n>", "")} ELSE {})
       \cup {Reply("\r\nERROR\r\n", ""), Reply("", "")}

\* to the bytes written after the prompt
SentReplies ==
  IF mock THEN {Reply("OK", "")}
  ELSE {Reply("\r\nOK\r\n\r\n+CCHSEND: 0,0\r\n", ""), Reply("\r\nERROR\r\n", ""), Reply("", "")}

\* what the modem hands over for server data d on AT+CCHRECV
RecvData(d) ==
  "\r\nOK\r\n\r\n" \o Marker \o "0," \o Dec(Len(d)) \o "\r\n" \o d \o "\r\n+CCHRECV: 0,0\r\n"

\* to one AT+CCHRECV while smtpSession awaits the status code code: the
\* server's reply with that code, a reply with another code, no data yet, an
\* error, or nothing
RecvReplies(code) ==
  IF mock THEN {Reply(Marker \o "0,3\r\n" \o code, "")}
  ELSE (IF chOpen
        THEN {Reply(RecvData(code \o " ok\r\n"), ""),
              Reply(RecvData("554 no\r\n"), ""),
              Reply("\r\nOK\r\n\r\n+CCHRECV: 0,0\r\n", "")}
        ELSE {Reply("\r\nERROR\r\n", "")})
       \cup {Reply("", "")}

\* to the receive commands of one cchRecvChunk call, in order: nothing to the
\* first j of them, then any answer
RecvRuns(code) ==
  {[i \in 1..(j + 1) |-> IF i <= j THEN Reply("", "") ELSE last] :
     j \in 0..(MaxPolls - 1), last \in RecvReplies(code)}

\* ------------------------------------------------------------------ inputs

ApnArgs == {Null, Ptr("internet")}
AccountArgs == {Null, Ptr("user@example.com")}
CredentialArgs == {Null, Ptr("app-pass")}
RecipientArgs == {Null, Ptr("dest@example.com")}
NameArgs == {Null, Ptr("Bob")}
SubjectArgs == {"", "Hi"}
BodyArgs == {"line1\nline2", "line1\r\nline2"}

\* ------------------------------------------------------------------ setters

Idle == pc = "idle" /\ nSet < MaxSets

\* SMTP::setAPN
setAPN ==
  /\ Idle
  /\ UNCHANGED notSmtp
  /\ \E a \in ApnArgs : apn' = OrEmpty(a)
  /\ nSet' = nSet + 1
  /\ UNCHANGED <<gmail, appPass, to, toName, fromName, subject, body,
                 rx, mock, modemVars, pc, at, step, ok, call>>

\* SMTP::setAuth
setAuth ==
  /\ Idle
  /\ UNCHANGED notSmtp
  /\ \E g \in AccountArgs, p \in CredentialArgs :
       /\ gmail' = OrEmpty(g)
       /\ appPass' = OrEmpty(p)
  /\ nSet' = nSet + 1
  /\ UNCHANGED <<apn, to, toName, fromName, subject, body,
                 rx, mock, modemVars, pc, at, step, ok, call>>

\* SMTP::setRecipient
setRecipient ==
  /\ Idle
  /\ UNCHANGED notSmtp
  /\ \E t \in RecipientArgs, n \in NameArgs :
       /\ to' = OrEmpty(t)
       /\ toName' = OrEmpty(n)
  /\ nSet' = nSet + 1
  /\ UNCHANGED <<apn, gmail, appPass, fromName, subject, body,
                 rx, mock, modemVars, pc, at, step, ok, call>>

\* SMTP::setFromName
setFromName ==
  /\ Idle
  /\ UNCHANGED notSmtp
  /\ \E n \in NameArgs : fromName' = OrEmpty(n)
  /\ nSet' = nSet + 1
  /\ UNCHANGED <<apn, gmail, appPass, to, toName, subject, body,
                 rx, mock, modemVars, pc, at, step, ok, call>>

\* SMTP::setSubject
setSubject ==
  /\ Idle
  /\ UNCHANGED notSmtp
  /\ \E t \in SubjectArgs : subject' = t
  /\ nSet' = nSet + 1
  /\ UNCHANGED <<apn, gmail, appPass, to, toName, fromName, body,
                 rx, mock, modemVars, pc, at, step, ok, call>>

\* SMTP::setBody
setBody ==
  /\ Idle
  /\ UNCHANGED notSmtp
  /\ \E t \in BodyArgs : body' = t
  /\ nSet' = nSet + 1
  /\ UNCHANGED <<apn, gmail, appPass, to, toName, fromName, subject,
                 rx, mock, modemVars, pc, at, step, ok, call>>

\* ------------------------------------------------------------------ sendEmail

\* sendEmail returns v
Return(v) == IF v THEN "true" ELSE "false"

ConfiguredNoRecipient == ~(gmail = "" \/ appPass = "")

\* the precondition of sendEmail
Configured == ~(gmail = "" \/ appPass = "" \/ to = "")

\* the setters are called before the message is sent: a call of sendEmail
\* that goes on to the modem uses up the setter calls that are left
AfterSend == IF Configured THEN MaxSets ELSE nSet

\* a sendEmail that takes the message out of the configuration
sendEmailConsuming ==
  /\ pc = "idle"
  /\ UNCHANGED notSmtp
  /\ IF Configured
     THEN /\ pc' = "bringUpPDP"
          /\ call' = NoCall
     ELSE /\ pc' = "idle"
          /\ call' = [NoCall EXCEPT !.ret = Return(FALSE)]
  /\ ok' = FALSE
  /\ at' = 1
  /\ subject' = "" /\ body' = ""
  /\ nSet' = AfterSend
  /\ UNCHANGED <<apn, gmail, appPass, to, toName, fromName, rx, mock, modemVars,
                 step>>

\* sendEmail is called: with a field missing it returns false at once, else
\* it goes on to bringUpPDP
sendEmail ==
  /\ pc = "idle"
  /\ UNCHANGED notSmtp
  /\ IF Configured
     THEN /\ pc' = "bringUpPDP"
          /\ call' = NoCall
     ELSE /\ pc' = "idle"
          /\ call' = [NoCall EXCEPT !.ret = Return(FALSE)]
  /\ ok' = FALSE      \* the local ok is assigned before it is read
  /\ at' = 1
  /\ nSet' = AfterSend
  /\ UNCHANGED <<cfgVars, rx, mock, modemVars, step>>

\* sendEmail after bringUpPDP returned v: on failure it returns at once
AfterBringUp(v) == IF v THEN "cchStart" ELSE "idle"

AfterStartIgnored(v) == "cchOpen"

\* sendEmail after cchStart returned v: on failure tearDownPDP, then return
AfterStart(v) == IF v THEN "cchOpen" ELSE "tearDownPDP"

AfterOpenNoStop(v) == IF v THEN "smtpExpect" ELSE "tearDownPDP"

\* sendEmail after cchOpen returned v: on failure cchStop, tearDownPDP, return
AfterOpen(v) == IF v THEN "smtpExpect" ELSE "cchStop"

AfterSessionNoClose == "cchStop"

\* sendEmail after smtpSession returned: cchClose, cchStop, tearDownPDP
AfterSession == "cchClose"

NetOpenTokensStrict == <<"OK", "+NETOPEN: 0">>

\* the tokens bringUpPDP accepts for AT+NETOPEN
NetOpenTokens ==
  <<"OK", "+NETOPEN: 0", "+IP ERROR: Network is already opened", "already opened">>

\* a bring-up that binds the socket with or without an APN
PdpCmdsBindAlways ==
  <<"ATE0", "AT+CMEE=2">>
  \o (IF Len(apn) > 0 THEN <<"AT+CGDCONT=1,\"IP\",\"" \o apn \o "\"">> ELSE <<>>)
  \o <<"AT+CSOCKSETPN=1", "AT+NETOPEN">>

\* a function that fails when one of its configuration commands failed
AllNeeded(failed, last) == last /\ ~failed

\* what bringUpPDP and cchStart return: the result last of their last
\* exchange; failed, a configuration command before it failed, is not looked at
LastOnly(failed, last) == last

\* the commands of bringUpPDP, in the order it writes them
PdpCmds ==
  <<"ATE0", "AT+CMEE=2">>
  \o (IF Len(apn) > 0
      THEN <<"AT+CGDCONT=1,\"IP\",\"" \o apn \o "\"", "AT+CSOCKSETPN=1">>
      ELSE <<>>)
  \o <<"AT+NETOPEN">>

\* SMTP::bringUpPDP, one exchange at a time: the configuration commands, whose
\* results are dropped, then AT+NETOPEN and the branch of sendEmail on its
\* result
bringUpPDP ==
  /\ pc = "bringUpPDP"
  /\ UNCHANGED notSmtp
  /\ IF at < Len(PdpCmds)
     THEN /\ \E r \in CfgReplies :
               LET x == AT(rx, "OK", r)
               IN /\ rx' = x.rx
                  /\ call' = [call EXCEPT
                       !.used = TRUE,
                       !.cmds = @ \o Written(PdpCmds[at], x),
                       !.cfgFail = (at > 1 /\ @) \/ ~x.ok,
                       !.ax = Asked("AT", PdpCmds[at], x)]
          /\ at' = at + 1
          /\ UNCHANGED <<pc, netOpen>>
     ELSE /\ \E rn \in NetOpenReplies :
               LET n == ATAcceptAny(rx, NetOpenTokens, rn)
                   v == LastOnly(call.cfgFail, n.ok)
               IN /\ rx' = n.rx
                  /\ netOpen' = rn.net
                  /\ call' = [call EXCEPT
                       !.used = TRUE,
                       !.cmds = @ \o Written(PdpCmds[at], n),
                       !.ax = Asked("ATAcceptAny", PdpCmds[at], n),
                       !.pdp = IF v THEN "ok" ELSE "fail",
                       !.already = Contains(rn.now, "already opened"),
                       !.ret = IF AfterBringUp(v) = "idle" THEN Return(FALSE) ELSE @]
                  /\ pc' = AfterBringUp(v)
          /\ at' = 1
  /\ UNCHANGED <<cfgVars, mock, tlsOn, chOpen, step, ok, nSet>>

OnTeardownStrict(v, done) == v /\ done

\* sendEmail after a teardown function returned (done: its command was
\* accepted): the functions are void, the value to return stays v
OnTeardown(v, done) == v

\* the modem's answer r to a teardown command carries no OK
NotOk(r) == IF Contains(r.now, "OK") THEN 0 ELSE 1

\* SMTP::tearDownPDP, after which sendEmail returns ok
tearDownPDP ==
  /\ pc = "tearDownPDP"
  /\ UNCHANGED notSmtp
  /\ \E r \in NetCloseReplies :
       LET n == ATAcceptAny(rx, <<"OK", "+NETCLOSE: 0", "ERROR">>, r)
       IN /\ rx' = n.rx
          /\ ok' = OnTeardown(ok, n.ok)
          /\ call' = [call EXCEPT !.used = TRUE,
                                  !.cmds = @ \o Written("AT+NETCLOSE", n),
                                  !.cfgFail = FALSE,
                                  !.ax = Asked("ATAcceptAny", "AT+NETCLOSE", n),
                                  !.tdFail = @ + NotOk(r),
                                  !.ret = Return(OnTeardown(ok, n.ok))]
  /\ netOpen' = FALSE
  /\ pc' = "idle"
  /\ UNCHANGED <<cfgVars, mock, tlsOn, chOpen, at, step, nSet>>

\* the commands of cchStart, in the order it writes them
StartCmds ==
  <<"AT+CSSLCFG=\"sslversion\",0,3", "AT+CSSLCFG=\"authmode\",0,0",
    "AT+CSSLCFG=\"ignorelocaltime\",0,1", "AT+CCHSTART">>

\* SMTP::cchStart, one exchange at a time: the configuration commands, whose
\* results are dropped, then AT+CCHSTART and the branch of sendEmail on its
\* result
cchStart ==
  /\ pc = "cchStart"
  /\ UNCHANGED notSmtp
  /\ IF at < Len(StartCmds)
     THEN /\ \E r \in CfgReplies :
               LET x == AT(rx, "OK", r)
               IN /\ rx' = x.rx
                  /\ call' = [call EXCEPT
                       !.used = TRUE,
                       !.cmds = @ \o Written(StartCmds[at], x),
                       !.cfgFail = (at > 1 /\ @) \/ ~x.ok,
                       !.ax = Asked("AT", StartCmds[at], x)]
          /\ at' = at + 1
          /\ UNCHANGED <<pc, tlsOn, ok>>
     ELSE /\ \E rs \in StartReplies :
               LET n == ATAcceptAny(rx, <<"OK", "ERROR">>, rs)
                   v == LastOnly(call.cfgFail, n.ok)
               IN /\ rx' = n.rx
                  /\ tlsOn' = rs.tls
                  /\ call' = [call EXCEPT
                       !.used = TRUE,
                       !.cmds = @ \o Written(StartCmds[at], n),
                       !.ax = Asked("ATAcceptAny", StartCmds[at], n),
                       !.tls = IF v THEN "ok" ELSE "fail"]
                  /\ pc' = AfterStart(v)
                  /\ ok' = IF v THEN ok ELSE FALSE
          /\ at' = 1
  /\ UNCHANGED <<cfgVars, mock, netOpen, chOpen, step, nSet>>

\* SMTP::cchStop
cchStop ==
  /\ pc = "cchStop"
  /\ UNCHANGED notSmtp
  /\ \E r \in StopReplies :
       LET x == AT(rx, "OK", r)
       IN /\ rx' = x.rx
          /\ ok' = OnTeardown(ok, x.ok)
          /\ call' = [call EXCEPT !.used = TRUE,
                                  !.cmds = @ \o Written("AT+CCHSTOP", x),
                                  !.ax = Asked("AT", "AT+CCHSTOP", x),
                                  !.tdFail = @ + NotOk(r)]
  /\ tlsOn' = FALSE
  /\ pc' = "tearDownPDP"
  /\ UNCHANGED <<cfgVars, mock, netOpen, chOpen, at, step, nSet>>

\* SMTP::cchOpen("smtp.gmail.com", 465, LINK_ID) and the branch of sendEmail
\* on its result
cchOpen ==
  /\ pc = "cchOpen"
  /\ UNCHANGED notSmtp
  /\ \E r \in OpenReplies :
       LET n == ATAcceptAny(rx, <<"OK", "+CCHOPEN", "ERROR">>, r)
           cmd == "AT+CCHOPEN=" \o Dec(LINK_ID) \o ",\"smtp.gmail.com\"," \o Dec(465)
       IN /\ rx' = n.rx
          /\ chOpen' = r.ch
          /\ call' = [call EXCEPT !.used = TRUE,
                                  !.cmds = @ \o Written(cmd, n),
                                  !.cfgFail = FALSE,
                                  !.ax = Asked("ATAcceptAny", cmd, n),
                                  !.open = IF n.ok THEN "ok" ELSE "fail",
                                  !.openErr = /\ Contains(r.now, "ERROR")
                                              /\ ~Contains(r.now, "OK")
                                              /\ ~Contains(r.now, "+CCHOPEN")]
          /\ pc' = AfterOpen(n.ok)
          /\ step' = 1
          /\ ok' = IF n.ok THEN ok ELSE FALSE
  /\ UNCHANGED <<cfgVars, mock, netOpen, tlsOn, at, nSet>>

\* SMTP::cchClose(LINK_ID)
cchClose ==
  /\ pc = "cchClose"
  /\ UNCHANGED notSmtp
  /\ \E r \in CloseReplies :
       LET x == AT(rx, "OK", r)
           cmd == "AT+CCHCLOSE=" \o Dec(LINK_ID)
       IN /\ rx' = x.rx
          /\ ok' = OnTeardown(ok, x.ok)
          /\ call' = [call EXCEPT !.used = TRUE,
                                  !.cmds = @ \o Written(cmd, x),
                                  !.ax = Asked("AT", cmd, x),
                                  !.rcv = NoRecv,
                                  !.tdFail = @ + NotOk(r)]
  /\ chOpen' = FALSE
  /\ pc' = "cchStop"
  /\ UNCHANGED <<cfgVars, mock, netOpen, tlsOn, at, step, nSet>>

\* ------------------------------------------------------------------ smtpSession

PrepareText(link, len) == "AT+CCHSEND=" \o Dec(link) \o "," \o Dec(len - 2)

\* the prepare command of cchSendRaw(link, data, len)
Prepare(link, len) == "AT+CCHSEND=" \o Dec(link) \o "," \o Dec(len)

cchSendRawUngated(link, rp, rd) ==
  LET p == waitFor(link \o rp.now, ">")
      d == waitFor(p.rest \o rp.late \o rd.now, "OK")
  IN [ok |-> d.ok, prompted |-> p.ok, wrote |-> TRUE, acked |-> d.ok,
      rx |-> d.rest \o rd.late]

cchSendRawBlind(link, rp, rd) ==
  LET p == waitFor(link \o rp.now, ">")
      d == waitFor(p.rest \o rp.late \o rd.now, "OK")
  IN [ok |-> p.ok /\ d.ok, prompted |-> p.ok, wrote |-> TRUE, acked |-> d.ok,
      rx |-> d.rest \o rd.late]

\* SMTP::cchSendRaw(link, data, len) for data == SendBytes(step): the prepare
\* command, the wait for the prompt, the raw write, the wait for OK.  rp and
\* rd are the modem's answers to the command and to the data.  prompted: the
\* first wait found '>'; wrote: the data were written; acked: the wait after
\* the write found OK.
cchSendRaw(link, rp, rd) ==
  LET p == waitFor(link \o rp.now, ">")
      d == waitFor(p.rest \o rp.late \o rd.now, "OK")
  IN IF ~p.ok
     THEN [ok |-> FALSE, prompted |-> FALSE, wrote |-> FALSE, acked |-> FALSE,
           rx |-> rp.late]
     ELSE [ok |-> d.ok, prompted |-> TRUE, wrote |-> TRUE, acked |-> d.ok,
           rx |-> d.rest \o rd.late]

\* SMTP::cchRecvChunk on the pending bytes link, after n receive commands; rs
\* are the modem's answers to the receive commands that still fit into the
\* timeout.  Pending bytes are drained first; a round without the marker
\* clears out.  out: the text handed back; all: every byte read from the
\* link since the call began.
RECURSIVE cchRecvChunk(_, _, _)
cchRecvChunk(link, rs, n) ==
  IF Contains(link, Marker)
  THEN [ok |-> TRUE, out |-> link, all |-> link, rx |-> "", polls |-> n]
  ELSE IF Len(rs) = 0
  THEN [ok |-> FALSE, out |-> "", all |-> "", rx |-> link, polls |-> n]
  ELSE LET out == link \o Head(rs).now
       IN IF Contains(out, Marker)
          THEN [ok |-> TRUE, out |-> out, all |-> out, rx |-> Head(rs).late,
                polls |-> n + 1]
          ELSE LET c == cchRecvChunk(Head(rs).late, Tail(rs), n + 1)
               IN [c EXCEPT !.all = out \o @]

OnExpectLenient(k, hit) ==
  IF k = 10 THEN [pc |-> AfterSession, ret |-> TRUE]
  ELSE [pc |-> "cchSendRaw", ret |-> ok]

\* smtpSession after smtpExpect returned hit at step k: a missing code ends
\* the session with false, except for the 221 after QUIT, whose result is
\* dropped before return true
OnExpect(k, hit) ==
  IF k = 10 THEN [pc |-> AfterSession, ret |-> TRUE]
  ELSE IF hit THEN [pc |-> "cchSendRaw", ret |-> ok]
  ELSE [pc |-> AfterSession, ret |-> FALSE]

OnSendQuitFatal(k, sent) ==
  IF sent THEN [pc |-> "smtpExpect", ret |-> ok]
  ELSE [pc |-> AfterSession, ret |-> FALSE]

\* smtpSession after the send of step k returned sent: a failed send ends the
\* session with false, except for QUIT, whose result is dropped
OnSend(k, sent) ==
  IF k = 9 \/ sent THEN [pc |-> "smtpExpect", ret |-> ok]
  ELSE [pc |-> AfterSession, ret |-> FALSE]

\* SMTP::smtpExpect(link, Codes[step]) and the branch of smtpSession on it
smtpExpect ==
  /\ pc = "smtpExpect"
  /\ UNCHANGED notSmtp
  /\ \E rs \in RecvRuns(Codes[step]) :
       LET c == cchRecvChunk(rx, rs, 0)
           hit == c.ok /\ ScanLines(c.out, Codes[step], 1)
           next == OnExpect(step, hit)
       IN /\ rx' = c.rx
          /\ pc' = next.pc
          /\ ok' = next.ret
          /\ call' = [call EXCEPT
               !.session = TRUE,
               !.rcv = [ok |-> c.ok, out |-> c.out, all |-> c.all, polls |-> c.polls,
                        code |-> Codes[step], hit |-> hit],
               !.recvs = @ + 1,
               !.sess = IF next.pc = AfterSession THEN Return(next.ret) ELSE @,
               !.used = @ \/ c.polls > 0 \/ Len(rx) > 0,
               !.codes = IF hit THEN Append(@, Codes[step]) ELSE @,
               !.nomatch = IF c.ok /\ ~hit THEN step ELSE @,
               !.reqAtNomatch = IF c.ok /\ ~hit THEN call.sendReq ELSE @]
  /\ UNCHANGED <<cfgVars, mock, modemVars, at, step, nSet>>

\* the send of step step (cchSendLine, or cchSendRaw for the message block)
\* and the branch of smtpSession on it
cchSend ==
  /\ pc = "cchSendRaw"
  /\ UNCHANGED notSmtp
  /\ \E rp \in PromptReplies, rd \in SentReplies :
       LET data == SendBytes(step)
           cmd == Prepare(LINK_ID, Len(data))
           r == cchSendRaw(rx, rp, rd)
           next == OnSend(step, r.ok)
       IN /\ rx' = r.rx
          /\ pc' = next.pc
          /\ ok' = next.ret
          /\ step' = step + 1
          /\ call' = [call EXCEPT
               !.used = TRUE,
               !.sess = IF next.pc = AfterSession THEN Return(next.ret) ELSE @,
               !.sendReq = @ + 1,
               !.prompts = @ + (IF r.prompted THEN 1 ELSE 0),
               !.sendOk = @ + (IF r.ok THEN 1 ELSE 0),
               !.lines = IF r.wrote THEN Append(@, data) ELSE @,
               !.rcv = NoRecv,
               !.reqs = Append(@, cmd),
               !.sx = [sent |-> TRUE, prompted |-> r.prompted, wrote |-> r.wrote,
                       acked |-> r.acked, ok |-> r.ok]]
  /\ UNCHANGED <<cfgVars, mock, modemVars, at, nSet>>

\* ------------------------------------------------------------------ specification

\* SMTP::b64 is not under test
B64Rest == b64in = "" /\ b64out = Null

\* A 32-bit unsigned value (unsigned long, uint32_t) as two 16-bit halves.
Of32(n) == [hi |-> (n \div 65536) % 65536, lo |-> n % 65536]

\* a + b and a - b in 32-bit unsigned arithmetic
Add32(a, b) ==
  [hi |-> (a.hi + b.hi + (a.lo + b.lo) \div 65536) % 65536, lo |-> (a.lo + b.lo) % 65536]

Sub32(a, b) ==
  [hi |-> (a.hi - b.hi - (IF a.lo < b.lo THEN 1 ELSE 0) + 65536) % 65536,
   lo |-> (a.lo - b.lo + 65536) % 65536]

\* a < b and a > b as 32-bit unsigned values
Lt32(a, b) == a.hi < b.hi \/ (a.hi = b.hi /\ a.lo < b.lo)
Gt32(a, b) == Lt32(b, a)

\* struct GSMCache as declared
NewCache ==
  [signalStrength |-> -999, signalQuality |-> 99, grade |-> "Unknown",
   carrierName |-> "Unknown", networkMode |-> "Unknown", isRegistered |-> FALSE,
   lastUpdate |-> Of32(0)]

\* no updateSignal / updateNetwork call yet
NoCacheCall ==
  [fn      |-> "none",    \* "updateSignal", "updateNetwork"
   force   |-> FALSE,     \* the argument forceRefresh
   age     |-> 0,         \* cage when the call was made
   queried |-> FALSE,     \* the call asked the modem
   before  |-> NewCache,  \* the cache when the call was made
   end     |-> Of32(0),   \* millis() when the call returned
   sigAge  |-> -1,        \* sig when the call was made
   netAge  |-> -1,        \* net when the call was made
   sig     |-> -1,        \* ms since the signal fields were fetched, -1: never
   net     |-> -1]        \* ms since the network fields were fetched, -1: never

\* the cache is not under test
CacheRest ==
  /\ cnow = Of32(0) /\ gsmCache = NewCache /\ cage = 0 /\ cticks = 0
  /\ clast = NoCacheCall

\* the globals after initDRD and the statics as declared
NewBtn ==
  [drdButtonState |-> "DRD_IDLE", drdStateChangeTime |-> 0, drdPressStartTime |-> 0,
   drdLastPressTime |-> 0, drdPressCount |-> 0, drdConfigMode |-> FALSE,
   drdLongPressDetected |-> FALSE,
   lastInterruptTime |-> 0, lastCheckTime |-> 0, lastProcessTime |-> 0]

\* no confirmed press
NoPress ==
  [n      |-> 0,       \* which confirmed press this is, 0: none
   t      |-> 0,       \* currentTime of its confirmation
   count  |-> 0,       \* drdPressCount before it
   before |-> FALSE,   \* drdConfigMode before it
   after  |-> FALSE]   \* drdConfigMode after it

\* the button has not been touched
NoPhys ==
  [down     |-> -1,    \* millis() when the pin last went LOW, -1: never
   up       |-> -1,    \* millis() when it went HIGH again, -1: not yet
   confirms |-> 0]     \* runs of processButtonPress since it went LOW

\* the mode button is not under test
BtnRest ==
  /\ bnow = 0 /\ bticks = 0 /\ pin = "HIGH" /\ btn = NewBtn
  /\ bhist = [prev |-> NoPress, last |-> NoPress, phys |-> NoPhys]

\* an erased namespace: no key
NoPrefs == [k \in {} |-> 0]

\* DRD_Manager(timeoutMs = 3000)
DrdTimeoutMs == 3000

\* a boot: millis() restarts, the object is constructed, the statics of loop
\* are not initialised before its first call
NewMgr ==
  [millis |-> Of32(0), timeout |-> Of32(DrdTimeoutMs), doubleResetDetected |-> FALSE,
   ret |-> "none",          \* what detectDoubleReset returned in this boot
   looped |-> FALSE,        \* loop has been called: startTime is initialised
   startTime |-> Of32(0), flagCleared |-> FALSE]

\* the first boot, with nothing before it
NoBoots ==
  [n      |-> 1,       \* the number of this boot
   ticks  |-> 0,       \* clock advances in this boot
   flag   |-> FALSE,   \* "flag" was stored when this boot began
   time   |-> Of32(0), \* the time stored when this boot began
   armed  |-> FALSE,   \* the boot before found no flag, stored it, and was
                       \* reset with the flag still stored
   up     |-> 0,       \* ms really passed since detectDoubleReset last
                       \* returned, in this boot or the one before, up to
                       \* the timeout
   since  |-> 0,       \* up when detectDoubleReset was called in this boot
   at     |-> Of32(0), \* millis() when it was called
   opened |-> FALSE]   \* prefs.begin succeeded in this boot

\* DRD_Manager is not under test
DrdRest == prefs = NoPrefs /\ mgr = NewMgr /\ boots = NoBoots

\* a cchRecvChunk call that has not begun
NoPoll ==
  [pc       |-> "idle",    \* "idle", "loop", "drain", "window", "delay", "done"
   t0       |-> Of32(0),   \* the local t0
   nextPoll |-> Of32(0),   \* the local nextPoll
   seen     |-> FALSE,     \* out contains the marker
   link     |-> FALSE,     \* the marker is pending on the link, unread
   ret      |-> "none",    \* "none" while running, then "true" / "false"
   cmds     |-> 0,         \* receive commands written
   late     |-> 0,         \* of these, the ones written with the marker in out
   gap      |-> 0,         \* ms really passed since the last command was written
   gapAt    |-> 0,         \* gap when the last command was written
   elapsed  |-> 0]         \* ms really passed since the call began

PollRest == rnow = Of32(0) /\ rcall = NoPoll

\* main.cpp, DRD_Manager and the timing of cchRecvChunk are not under test
MainRest == CacheRest /\ BtnRest /\ DrdRest /\ PollRest

\* the record of a GSM_Test function that has done nothing yet
NoGsmCall ==
  [fn     |-> "none",   \* "makeCall", "sendSMS", "getSignalStrength"
   ret    |-> "none",   \* "none" while running, "true" / "false", "int"
   val    |-> 0,        \* the int returned by getSignalStrength
   sent   |-> <<>>,     \* what was written to the modem, in order
   ready  |-> "none",   \* the answer to AT+CPIN? held READY: "yes" / "no"
   mode   |-> "none",   \* the answer to AT+CMGF=1 held OK: "yes" / "no"
   prompt |-> "none",   \* the '>' arrived within the wait: "yes" / "no"
   final  |-> Null,     \* sendSMS: the response read after Ctrl+Z
   csq    |-> "none"]   \* the kind of answer the modem gave to AT+CSQ

\* no sendATCommand call yet
NoExchange ==
  [cmd |-> "", pending |-> "", dropped |-> "", wrote |-> <<>>,
   arrived |-> "", resp |-> ""]

\* GSM_Test is not under test
GsmRest ==
  /\ glink = "" /\ gfly = "" /\ gpc = "idle" /\ gcall = NoGsmCall /\ gx = NoExchange

\* no wait loop is under test
WaitRest ==
  /\ wfn = "waitFor" /\ wpc = "done" /\ wlink = <<>> /\ wleft = 0 /\ pleft = 0
  /\ wfound = FALSE /\ wret = "none"

\* the state after construction: every field empty, nothing called; the
\* modem has been powered up with the board
Init ==
  /\ apn = "" /\ gmail = "" /\ appPass = "" /\ to = ""
  /\ toName = "" /\ fromName = "" /\ subject = "" /\ body = ""
  /\ rx = ""
  /\ mock \in BOOLEAN
  /\ netOpen = FALSE /\ tlsOn = FALSE /\ chOpen = FALSE
  /\ pc = "idle"
  /\ at = 1
  /\ step = 1
  /\ ok = FALSE
  /\ call = NoCall
  /\ nSet = 0
  /\ B64Rest
  /\ WaitRest
  /\ GsmRest
  /\ MainRest

Next ==
  \/ setAPN
  \/ setAuth
  \/ setRecipient
  \/ setFromName
  \/ setSubject
  \/ setBody
  \/ sendEmail
  \/ bringUpPDP
  \/ cchStart
  \/ cchOpen
  \/ smtpExpect
  \/ cchSend
  \/ cchClose
  \/ cchStop
  \/ tearDownPDP

Spec == Init /\ [][Next]_vars

\* ------------------------------------------------------------------ b64 alone

\* the longest argument of b64
MaxB64Len == 5

\* the bytes the arguments are made of: 0x20, 0x2F, 0x61, 0x7E
B64Bytes == {" ", "/", "a", "~"}

\* the strings over B64Bytes of length up to n
RECURSIVE B64Strings(_)
B64Strings(n) ==
  IF n = 0 THEN {""}
  ELSE B64Strings(n - 1) \cup {t \o c : t \in B64Strings(n - 1), c \in B64Bytes}

\* the SMTP object of the other specification, untouched
SmtpRest ==
  /\ apn = "" /\ gmail = "" /\ appPass = "" /\ to = ""
  /\ toName = "" /\ fromName = "" /\ subject = "" /\ body = ""
  /\ rx = "" /\ mock = FALSE
  /\ netOpen = FALSE /\ tlsOn = FALSE /\ chOpen = FALSE
  /\ pc = "idle" /\ at = 1 /\ step = 1 /\ ok = FALSE /\ call = NoCall /\ nSet = 0

B64Init ==
  /\ b64in \in B64Strings(MaxB64Len)
  /\ b64out = Null
  /\ SmtpRest
  /\ WaitRest
  /\ GsmRest
  /\ MainRest

\* String out = b64(in)
b64Call ==
  /\ b64out = Null
  /\ b64out' = Ptr(b64(b64in))
  /\ UNCHANGED b64in
  /\ UNCHANGED notB64

B64Next == b64Call

B64Spec == B64Init /\ [][B64Next]_b64Vars

\* ------------------------------------------------------------------ wait loops

\* the timeout ms of the wait, in clock ticks
WaitMs == 2

\* the 150 ms read window after a receive command, in clock ticks
PollMs == 1

\* the bytes the receive buffer of the link holds
MaxPending == 2

WaitInit ==
  /\ wfn \in {"waitFor", "cchRecvChunk"}
  /\ wpc = "loop"
  /\ wlink \in {<<>>, <<"x">>}
  /\ wleft = WaitMs
  /\ pleft = 0
  /\ wfound = FALSE
  /\ wret = "none"
  /\ SmtpRest
  /\ B64Rest
  /\ GsmRest
  /\ MainRest

\* millis() advances by one tick; a deadline that has passed stays passed
tick ==
  /\ wpc # "done"
  /\ wleft > 0 \/ pleft > 0
  /\ wleft' = IF wleft > 0 THEN wleft - 1 ELSE 0
  /\ pleft' = IF pleft > 0 THEN pleft - 1 ELSE 0
  /\ UNCHANGED <<wfn, wpc, wlink, wfound, wret>>
  /\ UNCHANGED notWait

\* the modem puts one more byte on the link
modemByte ==
  /\ wpc # "done"
  /\ Len(wlink) < MaxPending
  /\ \E b \in {"x", "t"} : wlink' = Append(wlink, b)
  /\ UNCHANGED <<wfn, wpc, wleft, pleft, wfound, wret>>
  /\ UNCHANGED notWait

\* while (millis() - t0 < ms) of waitFor and cchRecvChunk; return false after
waitLoop ==
  /\ wpc = "loop"
  /\ IF wleft > 0
     THEN wpc' = "read" /\ UNCHANGED wret
     ELSE wpc' = "done" /\ wret' = "false"
  /\ UNCHANGED <<wfn, wlink, wleft, pleft, wfound>>
  /\ UNCHANGED notWait

\* waitFor: while (_m.available()) { read; if (buf.indexOf(token) >= 0) return
\* true; } yield();
waitRead ==
  /\ wfn = "waitFor" /\ wpc = "read"
  /\ IF wlink # <<>>
     THEN /\ wlink' = Tail(wlink)
          /\ wfound' = (wfound \/ Head(wlink) = "t")
          /\ IF Head(wlink) = "t"
             THEN wpc' = "done" /\ wret' = "true"
             ELSE UNCHANGED <<wpc, wret>>
     ELSE wpc' = "loop" /\ UNCHANGED <<wlink, wfound, wret>>
  /\ UNCHANGED <<wfn, wleft, pleft>>
  /\ UNCHANGED notWait

\* cchRecvChunk: while (_m.available()) out += read; then the marker test,
\* and the receive command when a poll is due
recvDrain ==
  /\ wfn = "cchRecvChunk" /\ wpc = "read"
  /\ IF wlink # <<>>
     THEN /\ wlink' = Tail(wlink)
          /\ wfound' = (wfound \/ Head(wlink) = "t")
          /\ UNCHANGED <<wpc, pleft>>
     ELSE /\ UNCHANGED <<wlink, wfound>>
          /\ IF wfound
             THEN wpc' = "last" /\ UNCHANGED pleft
             ELSE \/ wpc' = "poll" /\ pleft' = PollMs
                  \/ wpc' = "loop" /\ UNCHANGED pleft
  /\ UNCHANGED <<wfn, wleft, wret>>
  /\ UNCHANGED notWait

\* cchRecvChunk: while (millis() - t1 < 150) if (_m.available()) out += read;
\* then the marker test, and out = "" without it
recvPoll ==
  /\ wpc = "poll"
  /\ IF pleft > 0
     THEN IF wlink # <<>>
          THEN /\ wlink' = Tail(wlink)
               /\ wfound' = (wfound \/ Head(wlink) = "t")
               /\ UNCHANGED wpc
          ELSE UNCHANGED <<wlink, wfound, wpc>>
     ELSE /\ wpc' = IF wfound THEN "last" ELSE "loop"
          /\ UNCHANGED <<wlink, wfound>>
  /\ UNCHANGED <<wfn, wleft, pleft, wret>>
  /\ UNCHANGED notWait

\* cchRecvChunk: delay(20); while (_m.available()) out += read; return true
recvLast ==
  /\ wpc = "last"
  /\ IF wlink # <<>>
     THEN wlink' = Tail(wlink) /\ UNCHANGED <<wpc, wret>>
     ELSE wpc' = "done" /\ wret' = "true" /\ UNCHANGED wlink
  /\ UNCHANGED <<wfn, wleft, pleft, wfound>>
  /\ UNCHANGED notWait

WaitNext ==
  \/ tick
  \/ modemByte
  \/ waitLoop
  \/ waitRead
  \/ recvDrain
  \/ recvPoll
  \/ recvLast

\* the program runs and the clock keeps advancing; the modem is free
WaitSpec ==
  /\ WaitInit /\ [][WaitNext]_waitVars
  /\ WF_waitVars(tick)
  /\ WF_waitVars(waitLoop) /\ WF_waitVars(waitRead)
  /\ WF_waitVars(recvDrain) /\ WF_waitVars(recvPoll) /\ WF_waitVars(recvLast)

\* ------------------------------------------------------------------ GSM_Test

\* The modem is the environment here too.  An answer is the bytes that arrive
\* within the wait (now) and the bytes that arrive after it (late); the late
\* bytes are in flight until they arrive, before or during a later wait.

\* to AT+CPIN?
PinReplies ==
  {Reply("\r\n+CPIN: READY\r\n\r\nOK\r\n", ""),
   Reply("\r\n+CPIN: SIM PIN\r\n\r\nOK\r\n", ""),
   Reply("\r\n+CME ERROR: SIM not inserted\r\n", ""),
   Reply("", "\r\n+CPIN: READY\r\n\r\nOK\r\n")}

\* to ATD<number>;
DialReplies == {Reply("\r\nOK\r\n", ""), Reply("\r\nNO CARRIER\r\n", ""), Reply("", "")}

\* to AT+CMGF=1
ModeReplies == {Reply("\r\nOK\r\n", ""), Reply("\r\nERROR\r\n", ""), Reply("", "\r\nOK\r\n")}

\* to AT+CMGS="<number>"
NumberReplies == {Reply("\r\n> ", ""), Reply("\r\n+CMS ERROR: 304\r\n", ""), Reply("", "\r\n> ")}

\* to the message and Ctrl+Z
MessageReplies ==
  {Reply("\r\n+CMGS: 12\r\n\r\nOK\r\n", ""),
   Reply("\r\n+CMGS: 12\r\n", "\r\nOK\r\n"),
   Reply("\r\n+CMS ERROR: 500\r\n", ""),
   Reply("", "")}

\* the RSSI values the modem reports
RssiVals == {0, 17, 31, 32, 99}

\* to AT+CSQ: a report, a report whose RSSI field is no number, a report cut
\* before the comma, an error, nothing
CsqReplies ==
  {[now |-> "\r\n+CSQ: " \o Dec(r) \o ",99\r\n\r\nOK\r\n", late |-> "",
    kind |-> "rssi", rssi |-> r] : r \in RssiVals}
  \cup {[now |-> "\r\n+CSQ: ,99\r\n\r\nOK\r\n", late |-> "", kind |-> "garbled", rssi |-> 0],
        [now |-> "\r\n+CSQ: 17", late |-> "", kind |-> "cut", rssi |-> 0],
        [now |-> "\r\nERROR\r\n", late |-> "", kind |-> "error", rssi |-> 0],
        [now |-> "", late |-> "", kind |-> "silent", rssi |-> 0]}

\* the arguments of makeCall and sendSMS
PhoneArgs == {"+94719792341"}
MessageArgs == {"", "hi"}

\* _modemSerial.write(26)
CtrlZ == "<26>"

sendATCommandNoDrain(link, fly, command, r) ==
  [dropped |-> "", wrote |-> <<command \o "\r\n">>,
   resp |-> link \o fly \o r.now, link |-> "", fly |-> r.late]

\* GSM_Test::sendATCommand(command, timeout) with link pending and fly in
\* flight, answered r: the pending bytes are read and dropped, the command
\* is written, and waitForAnyResponse returns all that arrives in the wait
sendATCommand(link, fly, command, r) ==
  [dropped |-> link, wrote |-> <<command \o "\r\n">>,
   resp |-> fly \o r.now, link |-> "", fly |-> r.late]

\* GSM_Test::waitForResponse(expected, timeout) on the stream s
waitForResponse(s, expected) == waitFor(s, expected)

\* the ghost record of a sendATCommand call
Exchange(command, r, x) ==
  [cmd |-> command, pending |-> glink, dropped |-> x.dropped, wrote |-> x.wrote,
   arrived |-> gfly \o r.now, resp |-> x.resp]

IsDigit(c) == Len(c) = 1 /\ Contains("0123456789", c)

\* the digits at the start of s, read as a decimal number after acc
RECURSIVE Digits(_, _)
Digits(s, acc) ==
  IF Len(s) > 0 /\ IsDigit(SubSeq(s, 1, 1))
  THEN Digits(SubSeq(s, 2, Len(s)), acc * 10 + (Ord(SubSeq(s, 1, 1)) - 48))
  ELSE acc

\* s without its leading whitespace
RECURSIVE SkipSpace(_)
SkipSpace(s) ==
  IF Len(s) > 0 /\ IsSpace(SubSeq(s, 1, 1)) THEN SkipSpace(SubSeq(s, 2, Len(s))) ELSE s

\* String::toInt (atol): whitespace, a sign, digits; 0 without digits
toInt(s) ==
  LET t == SkipSpace(s)
  IN IF StartsWith(t, "-") THEN 0 - Digits(SubSeq(t, 2, Len(t)), 0)
     ELSE IF StartsWith(t, "+") THEN Digits(SubSeq(t, 2, Len(t)), 0)
     ELSE Digits(t, 0)

\* getSignalStrength on the response to AT+CSQ
CsqToDbm(response) ==
  LET start == IndexOf(response, "+CSQ:", 1)
      nl == IF start = 0 THEN 0 ELSE IndexOf(response, "\n", start)
      signalInfo == SubSeq(response, start, IF nl = 0 THEN Len(response) ELSE nl - 1)
      comma == IndexOf(signalInfo, ",", 1)
      rssiStr == SubSeq(signalInfo, IndexOf(signalInfo, ":", 1) + 1, comma - 1)
      rssi == toInt(rssiStr)
  IN IF start = 0 THEN -999
     ELSE IF comma <= 1 THEN -999
     ELSE IF rssi >= 0 /\ rssi <= 31 THEN -113 + rssi * 2
     ELSE -999

GsmInit ==
  /\ GsmRest
  /\ SmtpRest
  /\ B64Rest
  /\ WaitRest
  /\ MainRest

\* bytes in flight arrive on the link
gsmArrive ==
  /\ gfly # ""
  /\ glink' = glink \o gfly
  /\ gfly' = ""
  /\ UNCHANGED <<gpc, gcall, gx>>
  /\ UNCHANGED notGsm

\* a GSM_Test function is called
gsmEnter(fn) ==
  /\ gpc = "idle"
  /\ gpc' = "checkSIM"
  /\ gcall' = [NoGsmCall EXCEPT !.fn = fn]
  /\ UNCHANGED <<glink, gfly, gx>>
  /\ UNCHANGED notGsm

makeCall == gsmEnter("makeCall")

sendSMS == gsmEnter("sendSMS")

getSignalStrength == gsmEnter("getSignalStrength")

OnSIMIgnored(fn, ready) ==
  CASE fn = "makeCall" -> "dial"
    [] fn = "sendSMS" -> "textMode"
    [] OTHER -> "csq"

\* the caller of checkSIM: it goes on only with a ready SIM
OnSIM(fn, ready) ==
  IF ~ready THEN "idle"
  ELSE CASE fn = "makeCall" -> "dial"
         [] fn = "sendSMS" -> "textMode"
         [] OTHER -> "csq"

\* GSM_Test::checkSIM and the branch of its caller
checkSIM ==
  /\ gpc = "checkSIM"
  /\ \E r \in PinReplies :
       LET x == sendATCommand(glink, gfly, "AT+CPIN?", r)
           ready == Contains(x.resp, "READY")
           next == OnSIM(gcall.fn, ready)
       IN /\ glink' = x.link
          /\ gfly' = x.fly
          /\ gx' = Exchange("AT+CPIN?", r, x)
          /\ gpc' = next
          /\ gcall' = [gcall EXCEPT
               !.sent = @ \o x.wrote,
               !.ready = IF ready THEN "yes" ELSE "no",
               !.ret = IF next # "idle" THEN @
                       ELSE IF gcall.fn = "getSignalStrength" THEN "int" ELSE "false",
               !.val = IF next = "idle" /\ gcall.fn = "getSignalStrength" THEN -999 ELSE @]
  /\ UNCHANGED notGsm

\* makeCall: the dial command
dial ==
  /\ gpc = "dial"
  /\ \E n \in PhoneArgs, r \in DialReplies :
       LET x == sendATCommand(glink, gfly, "ATD" \o n \o ";", r)
       IN /\ glink' = x.link
          /\ gfly' = x.fly
          /\ gx' = Exchange("ATD" \o n \o ";", r, x)
          /\ gcall' = [gcall EXCEPT
               !.sent = @ \o x.wrote,
               !.ret = Return(Contains(x.resp, "OK"))]
  /\ gpc' = "idle"
  /\ UNCHANGED notGsm

\* sendSMS: text mode
textMode ==
  /\ gpc = "textMode"
  /\ \E r \in ModeReplies :
       LET x == sendATCommand(glink, gfly, "AT+CMGF=1", r)
           set == Contains(x.resp, "OK")
       IN /\ glink' = x.link
          /\ gfly' = x.fly
          /\ gx' = Exchange("AT+CMGF=1", r, x)
          /\ gpc' = IF set THEN "number" ELSE "idle"
          /\ gcall' = [gcall EXCEPT
               !.sent = @ \o x.wrote,
               !.mode = IF set THEN "yes" ELSE "no",
               !.ret = IF set THEN @ ELSE "false"]
  /\ UNCHANGED notGsm

OnPromptIgnored(prompted) == "message"

\* sendSMS after the wait for the prompt
OnPrompt(prompted) == IF prompted THEN "message" ELSE "idle"

\* sendSMS: AT+CMGS with the number and the wait for the prompt
number ==
  /\ gpc = "number"
  /\ \E n \in PhoneArgs, r \in NumberReplies :
       LET w == waitForResponse(glink \o gfly \o r.now, ">")
           next == OnPrompt(w.ok)
       IN /\ glink' = w.rest
          /\ gfly' = r.late
          /\ gpc' = next
          /\ gcall' = [gcall EXCEPT
               !.sent = Append(@, "AT+CMGS=\"" \o n \o "\"\r\n"),
               !.prompt = IF w.ok THEN "yes" ELSE "no",
               !.ret = IF next = "idle" THEN "false" ELSE @]
  /\ UNCHANGED gx
  /\ UNCHANGED notGsm

\* sendSMS: the message, Ctrl+Z and the final response
message ==
  /\ gpc = "message"
  /\ \E m \in MessageArgs, r \in MessageReplies :
       LET smsResponse == glink \o gfly \o r.now
       IN /\ glink' = ""
          /\ gfly' = r.late
          /\ gcall' = [gcall EXCEPT
               !.sent = @ \o <<m, CtrlZ>>,
               !.final = Ptr(smsResponse),
               !.ret = Return(Contains(smsResponse, "+CMGS:") /\ Contains(smsResponse, "OK"))]
  /\ gpc' = "idle"
  /\ UNCHANGED gx
  /\ UNCHANGED notGsm

\* getSignalStrength: AT+CSQ and the conversion
csq ==
  /\ gpc = "csq"
  /\ \E r \in CsqReplies :
       LET x == sendATCommand(glink, gfly, "AT+CSQ", r)
       IN /\ glink' = x.link
          /\ gfly' = x.fly
          /\ gx' = Exchange("AT+CSQ", r, x)
          /\ gcall' = [gcall EXCEPT
               !.sent = @ \o x.wrote,
               !.csq = IF r.kind = "rssi" THEN Dec(r.rssi) ELSE r.kind,
               !.ret = "int",
               !.val = CsqToDbm(x.resp)]
  /\ gpc' = "idle"
  /\ UNCHANGED notGsm

GsmNext ==
  \/ gsmArrive
  \/ makeCall
  \/ sendSMS
  \/ getSignalStrength
  \/ checkSIM
  \/ dial
  \/ textMode
  \/ number
  \/ message
  \/ csq

GsmSpec == GsmInit /\ [][GsmNext]_gsmVars

\* ------------------------------------------------------------------ GSMCache

\* SMTP, SMTP::b64, the wait loops and GSM_Test are not under test
LibRest == SmtpRest /\ B64Rest /\ WaitRest /\ GsmRest

UPDATE_INTERVAL == 300000

\* how far the clock moves in one step: 1 ms, the interval, the whole range
\* of millis() less the interval
ClockSteps ==
  {Of32(1), Of32(UPDATE_INTERVAL), Sub32(Of32(0), Of32(UPDATE_INTERVAL))}

\* the clock moves at most this often
MaxClockSteps == 3

\* cage stops counting here
AgeCap == UPDATE_INTERVAL + 1

\* how long a query of the modem takes: the clock moves during a query too
QueryMs == {0, 1500}

\* a step of the clock by d ms is still allowed
MayPass(d) == d = 0 \/ cticks < MaxClockSteps

\* what gsmModem.getSignalStrength() returns
SignalVals == {-999} \cup {-113 + 2 * r : r \in {12, 31}}

\* what gsmModem.detectCarrierNetwork() returns
NetworkInfos ==
  {[carrierName |-> "Dialog", networkMode |-> "LTE", isRegistered |-> TRUE],
   [carrierName |-> "Unknown", networkMode |-> "Unknown", isRegistered |-> FALSE]}

needsUpdateEarly(forceRefresh, now, lastUpdate) ==
  forceRefresh \/ ~Lt32(Sub32(now, lastUpdate), Of32(UPDATE_INTERVAL))

\* GSMCache::needsUpdate(forceRefresh) at millis() = now
needsUpdate(forceRefresh, now, lastUpdate) ==
  forceRefresh \/ Gt32(Sub32(now, lastUpdate), Of32(UPDATE_INTERVAL))

\* the grade of a quality
Grade(q) ==
  IF q >= 20 THEN "Excellent"
  ELSE IF q >= 15 THEN "Good"
  ELSE IF q >= 10 THEN "Fair"
  ELSE "Poor"

\* the quality of a strength in dBm, clamped to 0..31
Quality(dbm) ==
  LET q == (dbm + 113) \div 2
  IN IF q < 0 THEN 0 ELSE IF q > 31 THEN 31 ELSE q

\* the age a of fetched fields after d more ms; it stops counting at AgeCap
Aged(a, d) ==
  IF a = -1 THEN -1
  ELSE IF Gt32(d, Of32(UPDATE_INTERVAL)) \/ a + d.hi * 65536 + d.lo >= AgeCap
  THEN AgeCap
  ELSE a + d.hi * 65536 + d.lo

CacheInit == CacheRest /\ LibRest /\ BtnRest /\ DrdRest /\ PollRest

\* time passes
cacheTick ==
  /\ cticks < MaxClockSteps
  /\ \E d \in ClockSteps :
       /\ cnow' = Add32(cnow, d)
       /\ cage' = IF Gt32(d, Of32(UPDATE_INTERVAL)) \/ cage + d.hi * 65536 + d.lo >= AgeCap
                  THEN AgeCap
                  ELSE cage + d.hi * 65536 + d.lo
       /\ clast' = [clast EXCEPT !.sig = Aged(@, d), !.net = Aged(@, d)]
  /\ cticks' = cticks + 1
  /\ UNCHANGED gsmCache
  /\ UNCHANGED notCache

\* the record of a call that found the cache fresh
CacheHit(fn, forceRefresh) ==
  [fn |-> fn, force |-> forceRefresh, age |-> cage, queried |-> FALSE,
   before |-> gsmCache, end |-> cnow,
   sigAge |-> clast.sig, netAge |-> clast.net, sig |-> clast.sig, net |-> clast.net]

\* GSMCache::updateSignal(forceRefresh)
updateSignal ==
  /\ \E forceRefresh \in BOOLEAN :
       IF needsUpdate(forceRefresh, cnow, gsmCache.lastUpdate)
       THEN \E dbm \in SignalVals, d \in QueryMs :
              /\ MayPass(d)
              /\ gsmCache' = [gsmCache EXCEPT
                   !.signalStrength = dbm,
                   !.signalQuality = IF dbm # -999 THEN Quality(dbm) ELSE @,
                   !.grade = IF dbm # -999 THEN Grade(Quality(dbm)) ELSE @,
                   !.lastUpdate = Add32(cnow, Of32(d))]
              /\ cnow' = Add32(cnow, Of32(d))
              /\ cage' = 0
              /\ cticks' = cticks + (IF d > 0 THEN 1 ELSE 0)
              /\ clast' = [CacheHit("updateSignal", forceRefresh) EXCEPT
                   !.queried = TRUE, !.end = Add32(cnow, Of32(d)),
                   !.sig = 0, !.net = Aged(@, Of32(d))]
       ELSE /\ clast' = CacheHit("updateSignal", forceRefresh)
            /\ UNCHANGED <<cnow, gsmCache, cage, cticks>>
  /\ UNCHANGED notCache

\* GSMCache::updateNetwork(forceRefresh)
updateNetwork ==
  /\ \E forceRefresh \in BOOLEAN :
       IF needsUpdate(forceRefresh, cnow, gsmCache.lastUpdate)
       THEN \E networkInfo \in NetworkInfos, d \in QueryMs :
              /\ MayPass(d)
              /\ gsmCache' = [gsmCache EXCEPT
                   !.carrierName = networkInfo.carrierName,
                   !.networkMode = networkInfo.networkMode,
                   !.isRegistered = networkInfo.isRegistered,
                   !.lastUpdate = Add32(cnow, Of32(d))]
              /\ cnow' = Add32(cnow, Of32(d))
              /\ cage' = 0
              /\ cticks' = cticks + (IF d > 0 THEN 1 ELSE 0)
              /\ clast' = [CacheHit("updateNetwork", forceRefresh) EXCEPT
                   !.queried = TRUE, !.end = Add32(cnow, Of32(d)),
                   !.net = 0, !.sig = Aged(@, Of32(d))]
       ELSE /\ clast' = CacheHit("updateNetwork", forceRefresh)
            /\ UNCHANGED <<cnow, gsmCache, cage, cticks>>
  /\ UNCHANGED notCache

CacheNext ==
  \/ cacheTick
  \/ updateSignal
  \/ updateNetwork

CacheSpec == CacheInit /\ [][CacheNext]_cacheVars

\* ------------------------------------------------------------------ mode button

DRD_DEBOUNCE_TIME == 50
DRD_DOUBLE_PRESS_TIME == 5000
DRD_HOLD_TIME == 2000

\* how far the clock moves in one step
BtnSteps == {60, 600, 5000}

\* the clock moves at most this often
MaxBtnSteps == 5

BtnInit == BtnRest /\ LibRest /\ CacheRest /\ DrdRest /\ PollRest

\* time passes
btnTick ==
  /\ bticks < MaxBtnSteps
  /\ \E d \in BtnSteps : bnow' = bnow + d
  /\ bticks' = bticks + 1
  /\ UNCHANGED <<pin, btn, bhist>>
  /\ UNCHANGED notBtn

\* drdButtonISR() at millis() = bnow with the pin at level
drdButtonISR(level) ==
  IF bnow - btn.lastInterruptTime > 10
  THEN [btn EXCEPT
         !.drdStateChangeTime = bnow,
         !.drdButtonState =
            IF level = "LOW"
            THEN (IF @ = "DRD_IDLE" THEN "DRD_PRESSED" ELSE @)
            ELSE (IF @ \in {"DRD_PRESSED", "DRD_HELD"} THEN "DRD_RELEASED" ELSE @),
         !.drdPressStartTime =
            IF level = "LOW" /\ btn.drdButtonState = "DRD_IDLE" THEN bnow ELSE @,
         !.lastInterruptTime = bnow]
  ELSE btn

\* the button goes down: the edge runs the interrupt handler
press ==
  /\ pin = "HIGH"
  /\ pin' = "LOW"
  /\ btn' = drdButtonISR("LOW")
  /\ bhist' = [bhist EXCEPT !.phys = [down |-> bnow, up |-> -1, confirms |-> 0]]
  /\ UNCHANGED <<bnow, bticks>>
  /\ UNCHANGED notBtn

\* the button goes up: the edge runs the interrupt handler
release ==
  /\ pin = "LOW"
  /\ pin' = "HIGH"
  /\ btn' = drdButtonISR("HIGH")
  /\ bhist' = [bhist EXCEPT !.phys.up = bnow]
  /\ UNCHANGED <<bnow, bticks>>
  /\ UNCHANGED notBtn

\* processButtonPress(currentTime) on the globals b
processButtonPress(b, currentTime) ==
  LET count == b.drdPressCount + 1
      due == currentTime - b.lastProcessTime > 500
      b1 == [b EXCEPT
               !.drdButtonState = "DRD_IDLE",
               !.drdPressCount = count,
               !.drdLastPressTime = currentTime]
  IN IF ~due THEN b1
     ELSE IF count >= 2
     THEN [b1 EXCEPT
            !.drdConfigMode = ~@,
            !.drdPressCount = 0,
            !.lastProcessTime = currentTime]
     ELSE IF count = 1
     THEN [b1 EXCEPT
            !.drdLongPressDetected = FALSE,
            !.drdPressCount = 0,
            !.lastProcessTime = currentTime]
     ELSE [b1 EXCEPT !.lastProcessTime = currentTime]

\* the debounce test of the cases DRD_PRESSED and DRD_RELEASED
Due(b, currentTime) ==
  currentTime - b.drdStateChangeTime >= DRD_DEBOUNCE_TIME

\* one case of the switch of checkDRD: st is the drdButtonState the switch
\* read, due the outcome of its debounce test, lv the level digitalRead
\* returns, b the globals the case writes to
DrdCase(st, due, b, lv, currentTime) ==
  CASE st = "DRD_PRESSED" ->
         IF due
         THEN IF lv = "LOW"
              THEN IF currentTime - b.drdPressStartTime >= DRD_HOLD_TIME
                   THEN [b EXCEPT !.drdButtonState = "DRD_HELD",
                                  !.drdLongPressDetected = TRUE]
                   ELSE b
              ELSE [b EXCEPT !.drdButtonState = "DRD_IDLE"]
         ELSE b
    [] st = "DRD_HELD" ->
         IF lv = "HIGH"
         THEN [b EXCEPT !.drdButtonState = "DRD_RELEASED",
                        !.drdStateChangeTime = currentTime]
         ELSE b
    [] st = "DRD_RELEASED" ->
         IF due
         THEN IF lv = "HIGH"
              THEN processButtonPress(b, currentTime)
              ELSE [b EXCEPT !.drdButtonState = "DRD_IDLE"]
         ELSE b
    [] OTHER -> b

\* the switch of checkDRD on drdButtonState
DrdSwitch(b, currentTime) ==
  DrdCase(b.drdButtonState, Due(b, currentTime), b, pin, currentTime)

\* checkDRD reaches processButtonPress
Confirms(b, currentTime) ==
  /\ b.drdButtonState = "DRD_RELEASED"
  /\ currentTime - b.drdStateChangeTime >= DRD_DEBOUNCE_TIME
  /\ pin = "HIGH"

\* the press count runs out
DrdTimeout(b, currentTime) ==
  IF b.drdPressCount > 0 /\ currentTime - b.drdLastPressTime > DRD_DOUBLE_PRESS_TIME
  THEN [b EXCEPT !.drdPressCount = 0]
  ELSE b

\* checkDRD() from the main loop
checkDRD ==
  /\ IF bnow - btn.lastCheckTime < 20
     THEN UNCHANGED <<btn, bhist>>
     ELSE LET b == [btn EXCEPT !.lastCheckTime = bnow]
              b2 == DrdSwitch(b, bnow)
          IN /\ btn' = DrdTimeout(b2, bnow)
             /\ bhist' =
                  IF Confirms(b, bnow)
                  THEN [prev |-> bhist.last,
                        last |-> [n |-> bhist.last.n + 1, t |-> bnow,
                                  count |-> b.drdPressCount,
                                  before |-> b.drdConfigMode,
                                  after |-> b2.drdConfigMode],
                        phys |-> [bhist.phys EXCEPT !.confirms = @ + 1]]
                  ELSE bhist
  /\ UNCHANGED <<bnow, bticks, pin>>
  /\ UNCHANGED notBtn

\* checkDRD() interrupted by an edge of the button: the interrupt handler runs
\* after the switch has read drdButtonState and made its debounce test and
\* before the case reads the pin
checkDRDInterrupted ==
  /\ bnow - btn.lastCheckTime >= 20
  /\ LET lv == IF pin = "HIGH" THEN "LOW" ELSE "HIGH"
         st == btn.drdButtonState
         due == Due(btn, bnow)
         b == [drdButtonISR(lv) EXCEPT !.lastCheckTime = bnow]
         b2 == DrdCase(st, due, b, lv, bnow)
         ran == st = "DRD_RELEASED" /\ due /\ lv = "HIGH"
         ph == IF lv = "LOW"
               THEN [down |-> bnow, up |-> -1, confirms |-> 0]
               ELSE [bhist.phys EXCEPT !.up = bnow]
     IN /\ pin' = lv
        /\ btn' = DrdTimeout(b2, bnow)
        /\ bhist' =
             IF ran
             THEN [prev |-> bhist.last,
                   last |-> [n |-> bhist.last.n + 1, t |-> bnow,
                             count |-> b.drdPressCount,
                             before |-> b.drdConfigMode,
                             after |-> b2.drdConfigMode],
                   phys |-> [ph EXCEPT !.confirms = @ + 1]]
             ELSE [bhist EXCEPT !.phys = ph]
  /\ UNCHANGED <<bnow, bticks>>
  /\ UNCHANGED notBtn

BtnNext ==
  \/ btnTick
  \/ press
  \/ release
  \/ checkDRD
  \/ checkDRDInterrupted

BtnSpec == BtnInit /\ [][BtnNext]_btnVars

\* ------------------------------------------------------------------ DRD_Manager

\* how far the clock moves in one step
DrdSteps == {50, DrdTimeoutMs}

\* the clock moves at most this often in one boot
MaxDrdTicks == 3

\* the device boots at most this often
MaxBoots == 3

\* Preferences: isKey, getUInt with its default, putUInt / putBool
isKey(p, key) == key \in DOMAIN p
getUInt(p, key, default) == IF key \in DOMAIN p THEN p[key] ELSE default
putUInt(p, key, value) ==
  [k \in DOMAIN p \cup {key} |-> IF k = key THEN value ELSE p[k]]

DrdInit == DrdRest /\ LibRest /\ CacheRest /\ BtnRest /\ PollRest

\* time passes
drdTick ==
  /\ boots.ticks < MaxDrdTicks
  /\ \E d \in DrdSteps :
       /\ mgr' = [mgr EXCEPT !.millis = Add32(@, Of32(d))]
       /\ boots' = [boots EXCEPT
            !.ticks = @ + 1,
            !.up = IF @ + d > DrdTimeoutMs THEN DrdTimeoutMs ELSE @ + d]
  /\ UNCHANGED prefs
  /\ UNCHANGED notDrd

\* the device is reset: the storage stays, the rest starts again
drdReset ==
  /\ boots.n < MaxBoots
  /\ mgr' = NewMgr
  /\ boots' = [boots EXCEPT
       !.n = @ + 1,
       !.ticks = 0,
       !.flag = isKey(prefs, "flag"),
       !.time = getUInt(prefs, "time", Of32(0)),
       !.armed = /\ mgr.ret = "false" /\ boots.opened /\ ~boots.flag
                 /\ isKey(prefs, "flag"),
       !.since = 0,
       !.at = Of32(0),
       !.opened = FALSE]
  /\ UNCHANGED prefs
  /\ UNCHANGED notDrd

\* the body of detectDoubleReset once the namespace is open
Detect(p, currentTime, timeout) ==
  LET flagExists == isKey(p, "flag")
      lastResetTime == getUInt(p, "time", Of32(0))
      resetCount == getUInt(p, "count", 0)
      timeSinceLastReset == Sub32(currentTime, lastResetTime)
  IN IF flagExists
     THEN IF Lt32(timeSinceLastReset, timeout)
          THEN IF resetCount + 1 >= 2
               THEN [ret |-> TRUE, prefs |-> NoPrefs]
               ELSE [ret |-> FALSE,
                     prefs |-> putUInt(putUInt(p, "count", resetCount + 1),
                                       "time", currentTime)]
          ELSE [ret |-> FALSE,
                prefs |-> putUInt(putUInt(p, "count", 1), "time", currentTime)]
     ELSE [ret |-> FALSE,
           prefs |-> putUInt(putUInt(putUInt(p, "flag", TRUE), "time", currentTime),
                             "count", 1)]

\* DRD_Manager::detectDoubleReset(), called once in setup
detectDoubleReset ==
  /\ mgr.ret = "none"
  /\ \E begun \in BOOLEAN :
       LET r == Detect(prefs, mgr.millis, mgr.timeout)
       IN /\ prefs' = IF begun THEN r.prefs ELSE prefs
          /\ mgr' = [mgr EXCEPT
               !.ret = Return(begun /\ r.ret),
               !.doubleResetDetected = IF begun THEN r.ret ELSE @]
          /\ boots' = [boots EXCEPT
               !.since = boots.up,
               !.at = mgr.millis,
               !.up = 0,
               !.opened = begun]
  /\ UNCHANGED notDrd

\* DRD_Manager::loop(), from the main loop after setup
drdLoop ==
  /\ mgr.ret # "none"
  /\ LET startTime == IF mgr.looped THEN mgr.startTime ELSE mgr.millis
         due == ~mgr.flagCleared /\ Gt32(Sub32(mgr.millis, startTime), mgr.timeout)
     IN /\ mgr' = [mgr EXCEPT
             !.looped = TRUE,
             !.startTime = startTime,
             !.flagCleared = @ \/ due]
        /\ \E begun \in BOOLEAN :
             prefs' = IF due /\ ~mgr.doubleResetDetected /\ begun THEN NoPrefs ELSE prefs
  /\ UNCHANGED boots
  /\ UNCHANGED notDrd

DrdNext ==
  \/ drdTick
  \/ drdReset
  \/ detectDoubleReset
  \/ drdLoop

DrdSpec == DrdInit /\ [][DrdNext]_drdVars

\* ------------------------------------------------------------------ receive polling

\* SMTP::cchRecvChunk step by step against millis(): the marker is either in
\* out (seen), pending on the link, or not there yet; the modem may deliver it
\* while the call waits.

POLL_INTERVAL_MS == 300

\* while (millis() - t1 < 150)
PollWindowMs == 150

\* delay(20) before the last drain, delay(10) at the end of a round
SettleMs == 20
RoundDelayMs == 10

\* the argument ms of the call
RecvMs == 1000

\* millis() when the call begins: after boot, and shortly before millis()
\* reaches 2^32
StartTimes == {Of32(0), Sub32(Of32(0), Of32(200)), Sub32(Of32(0), Of32(RecvMs))}

PollInit ==
  /\ rnow \in StartTimes
  /\ rcall = NoPoll
  /\ LibRest /\ CacheRest /\ BtnRest /\ DrdRest

\* d ms pass in the call c
Passed(c, d) == [c EXCEPT !.gap = @ + d, !.elapsed = @ + d]

\* millis() >= nextPoll
PollDue(now, nextPoll) == ~Lt32(now, nextPoll)

\* out = ""; t0 = millis(); nextPoll = millis()
pollBegin ==
  /\ rcall.pc = "idle" /\ rcall.ret = "none"
  /\ \E m \in BOOLEAN :
       rcall' = [rcall EXCEPT !.pc = "loop", !.t0 = rnow, !.nextPoll = rnow,
                              !.link = m]
  /\ UNCHANGED rnow
  /\ UNCHANGED notPoll

\* while (millis() - t0 < ms); return false after the loop
pollTest ==
  /\ rcall.pc = "loop"
  /\ rcall' = IF Lt32(Sub32(rnow, rcall.t0), Of32(RecvMs))
              THEN [rcall EXCEPT !.pc = "drain"]
              ELSE [rcall EXCEPT !.pc = "done", !.ret = "false"]
  /\ UNCHANGED rnow
  /\ UNCHANGED notPoll

\* the drain of the pending bytes, the marker test with its return, and the
\* receive command when millis() >= nextPoll
pollDrain ==
  /\ rcall.pc = "drain"
  /\ LET found == rcall.seen \/ rcall.link
     IN IF found
        THEN /\ rnow' = Add32(rnow, Of32(SettleMs))
             /\ rcall' = [Passed(rcall, SettleMs) EXCEPT
                  !.seen = TRUE, !.link = FALSE, !.pc = "done", !.ret = "true"]
        ELSE /\ UNCHANGED rnow
             /\ rcall' = IF PollDue(rnow, rcall.nextPoll)
                         THEN [rcall EXCEPT
                                 !.nextPoll = Add32(rnow, Of32(POLL_INTERVAL_MS)),
                                 !.cmds = @ + 1,
                                 !.late = @ + (IF found THEN 1 ELSE 0),
                                 !.gapAt = rcall.gap,
                                 !.gap = 0,
                                 !.pc = "window"]
                         ELSE [rcall EXCEPT !.pc = "delay"]
  /\ UNCHANGED notPoll

\* while (millis() - t1 < 150) if (available) out += read; the marker test
\* with its return, and out = "" without the marker
pollWindow ==
  /\ rcall.pc = "window"
  /\ \E m \in BOOLEAN :
       IF m
       THEN /\ rnow' = Add32(rnow, Of32(PollWindowMs + SettleMs))
            /\ rcall' = [Passed(rcall, PollWindowMs + SettleMs) EXCEPT
                 !.seen = TRUE, !.pc = "done", !.ret = "true"]
       ELSE /\ rnow' = Add32(rnow, Of32(PollWindowMs))
            /\ rcall' = [Passed(rcall, PollWindowMs) EXCEPT !.pc = "delay"]
  /\ UNCHANGED notPoll

\* delay(10); yield(); the modem may deliver the marker meanwhile
pollDelay ==
  /\ rcall.pc = "delay"
  /\ rnow' = Add32(rnow, Of32(RoundDelayMs))
  /\ \E m \in BOOLEAN :
       rcall' = [Passed(rcall, RoundDelayMs) EXCEPT !.pc = "loop", !.link = m]
  /\ UNCHANGED notPoll

PollNext ==
  \/ pollBegin
  \/ pollTest
  \/ pollDrain
  \/ pollWindow
  \/ pollDelay

PollSpec == PollInit /\ [][PollNext]_pollVars

\* ------------------------------------------------------------------ message block

\* The message block of smtpSession composed on its own, for bodies made of
\* the pieces below.

\* the pieces a body is made of, and how many of them
Pieces == {"a", ".", "\r\n"}
MaxBodyPieces == 4

\* the bodies of at most n pieces
RECURSIVE BodiesOf(_)
BodiesOf(n) ==
  IF n = 0 THEN {""}
  ELSE LET shorter == BodiesOf(n - 1)
       IN shorter \cup {b \o q : b \in shorter, q \in Pieces}

\* the configuration a message is composed from
PayInit ==
  /\ apn = "" /\ gmail = "user@example.com" /\ appPass = "app-pass"
  /\ to = "dest@example.com"
  /\ toName \in {"", "Bob"} /\ fromName = "" /\ subject \in SubjectArgs
  /\ body \in BodiesOf(MaxBodyPieces)
  /\ rx = "" /\ mock = FALSE
  /\ netOpen = FALSE /\ tlsOn = FALSE /\ chOpen = FALSE
  /\ pc = "idle" /\ at = 1 /\ step = 1 /\ ok = FALSE /\ call = NoCall /\ nSet = 0
  /\ B64Rest /\ WaitRest /\ GsmRest /\ MainRest

\* the block of smtpSession that composes payload, which cchSendRaw is then
\* given as one piece
composePayload ==
  /\ pc = "idle" /\ call.lines = <<>>
  /\ call' = [call EXCEPT !.lines = <<Payload>>]
  /\ UNCHANGED <<cfgVars, rx, mock, modemVars, pc, at, step, ok, nSet>>
  /\ UNCHANGED notSmtp

PayNext == composePayload

PaySpec == PayInit /\ [][PayNext]_vars

\* ------------------------------------------------------------------ properties

\* sendEmail has returned and nothing was called since
Returned == pc = "idle" /\ call.ret # "none"

\* how often the running (or last) call wrote the control command c
Count(c) == Cardinality({i \in 1..Len(call.cmds) : call.cmds[i] = c})

Closes == Count("AT+CCHCLOSE=0")
Stops == Count("AT+CCHSTOP")
NetCloses == Count("AT+NETCLOSE")

IsPrefix(a, b) == Len(a) <= Len(b) /\ \A i \in 1..Len(a) : a[i] = b[i]

\* C1: whatever bringUpPDP, cchStart and cchOpen returned in a sendEmail call,
\* when the call has returned AT+CCHCLOSE, AT+CCHSTOP and AT+NETCLOSE were each
\* written exactly once if the stage they undo returned success in that call
\* and not at all otherwise (never more than once while it runs), and the
\* modem's channel is not open.
TeardownComplete ==
  /\ Closes <= 1 /\ Stops <= 1 /\ NetCloses <= 1
  /\ Returned =>
       /\ Closes = (IF call.open = "ok" THEN 1 ELSE 0)
       /\ Stops = (IF call.tls = "ok" THEN 1 ELSE 0)
       /\ NetCloses = (IF call.pdp = "ok" THEN 1 ELSE 0)
       /\ ~chOpen

\* a call in which TLS started and the channel could not be opened has returned
TeardownCompleteWitness ==
  /\ Returned /\ call.pdp = "ok" /\ call.tls = "ok" /\ call.open = "fail"
  /\ Closes = 0 /\ Stops = 1 /\ NetCloses = 1

\* C2: a step taken while sendEmail is not running and the account, the
\* credential or the recipient is empty leaves sendEmail not running and the
\* link unread; if it is a call of sendEmail, the call has returned false
\* without any transport operation.
FailFast ==
  [][(pc = "idle" /\ (gmail = "" \/ appPass = "" \/ to = ""))
       => /\ pc' = "idle"
          /\ rx' = rx
          /\ \/ call' = call
             \/ call'.ret = "false" /\ ~call'.used /\ call'.cmds = <<>>
                /\ call'.sendReq = 0]_vars

\* sendEmail was called with account and credential set and no recipient
FailFastWitness ==
  /\ Returned /\ call.ret = "false" /\ ~call.used /\ call.pdp = "none"
  /\ gmail # "" /\ appPass # "" /\ to = ""

\* C3: a stage is started only after the stage before it returned success,
\* the SMTP session (greeting awaited, a line sent) only after all three did;
\* after a stage has returned failure no later stage is started, and the call
\* returns false.
SessionGated ==
  /\ call.tls # "none" => call.pdp = "ok"
  /\ call.open # "none" => call.tls = "ok"
  /\ (call.session \/ call.sendReq > 0 \/ Len(call.codes) > 0 \/ pc \in {"smtpExpect", "cchSendRaw"})
       => call.open = "ok"
  /\ (call.pdp = "fail" \/ call.tls = "fail" \/ call.open = "fail")
       => /\ call.ret \in {"none", "false"}
          /\ pc \in {"idle", "cchStop", "tearDownPDP"}
          /\ Returned => call.ret = "false"

\* a call whose TLS start failed has returned
SessionGatedWitness ==
  /\ Returned /\ call.pdp = "ok" /\ call.tls = "fail" /\ call.open = "none"
  /\ ~call.session /\ call.ret = "false"

\* C4: a call that entered the SMTP session returns true exactly if the ninth
\* status code, the 250 after the message block, was matched; the QUIT line
\* and the 221 may or may not have followed.
ResultIsPostData250 ==
  /\ (Returned /\ call.open = "ok")
       => (call.ret = "true" <=> Len(call.codes) >= 9)
  /\ call.ret = "true" => Len(call.codes) >= 9 /\ Len(call.lines) >= 8

\* a call returned true although QUIT was not sent and no 221 was matched
ResultIsPostData250Witness ==
  /\ Returned /\ call.ret = "true"
  /\ Len(call.lines) = 8 /\ Len(call.codes) = 9 /\ call.sendReq = 9

\* C5 as stated: after a chunk without a line carrying the required code,
\* at any step, smtpSession has returned false and no further channel send
\* is requested.
NoMatchFailsSession ==
  call.nomatch # 0
    => /\ pc \in {"cchClose", "cchStop", "tearDownPDP", "idle"}
       /\ call.sendReq = call.reqAtNomatch
       /\ ~ok
       /\ call.ret \in {"none", "false"}

\* C5 as amended: after a chunk without a line carrying the required code no
\* further channel send is requested; smtpSession has returned false if the
\* step was one of the nine up to the 250 after the message block, and true
\* if it was the 221 after QUIT.
NoMatchEndsSession ==
  call.nomatch # 0
    => /\ pc \in {"cchClose", "cchStop", "tearDownPDP", "idle"}
       /\ call.sendReq = call.reqAtNomatch
       /\ ok <=> call.nomatch = 10
       /\ call.ret \in {"none", Return(call.nomatch = 10)}

\* the reply to AUTH LOGIN carried another code and the call has returned
NoMatchEndsSessionWitness ==
  /\ Returned /\ call.nomatch = 3 /\ call.ret = "false"
  /\ call.sendReq = 2 /\ Len(call.lines) = 2

\* the k-th block of the fixed sequence of C6
FixedLine(k) ==
  CASE k = 1 -> "EHLO simcom\r\n"
    [] k = 2 -> "AUTH LOGIN\r\n"
    [] k = 3 -> b64(gmail) \o "\r\n"
    [] k = 4 -> b64(appPass) \o "\r\n"
    [] k = 5 -> "MAIL FROM:<" \o gmail \o ">\r\n"
    [] k = 6 -> "RCPT TO:<" \o to \o ">\r\n"
    [] k = 7 -> "DATA\r\n"
    [] k = 8 -> Payload
    [] k = 9 -> "QUIT\r\n"

\* C6: while sendEmail runs, the blocks written to the channel are a prefix of
\* the fixed sequence (so each is written at most once), the codes matched are
\* a prefix of 220 250 334 334 235 250 250 354 250 221, and the k-th block is
\* requested and written only when the first k codes have been matched.
SendOrder ==
  pc # "idle"
    => /\ Len(call.lines) <= 9
       /\ \A k \in 1..Len(call.lines) : call.lines[k] = FixedLine(k)
       /\ IsPrefix(call.codes, Codes)
       /\ Len(call.lines) <= call.sendReq
       /\ call.sendReq <= Len(call.codes)

\* all nine blocks have been written
SendOrderWitness ==
  pc # "idle" /\ Len(call.lines) = 9 /\ Len(call.codes) = 10

\* C7: when a call in which the channel was opened has returned, some channel
\* send was requested and the modem sent the prompt for none, then no send
\* returned true, the call returned false, and AT+CCHCLOSE, AT+CCHSTOP and
\* AT+NETCLOSE were each written exactly once.
NoPromptFails ==
  (Returned /\ call.open = "ok" /\ call.sendReq > 0 /\ call.prompts = 0)
    => /\ call.sendOk = 0
       /\ call.lines = <<>>
       /\ call.ret = "false"
       /\ Closes = 1 /\ Stops = 1 /\ NetCloses = 1

\* the greeting was matched, the send of EHLO got no prompt, the call returned
NoPromptFailsWitness ==
  /\ Returned /\ call.open = "ok" /\ call.codes = <<"220">>
  /\ call.sendReq = 1 /\ call.prompts = 0 /\ call.ret = "false"
  /\ Closes = 1 /\ Stops = 1 /\ NetCloses = 1

\* no LF without a CR before it
NoBareLF(s) ==
  \A i \in 1..Len(s) :
    SubSeq(s, i, i) = "\n" => (i > 1 /\ SubSeq(s, i - 1, i - 1) = "\r")

\* the last line is a lone '.'
EndsWithDotLine(s) == Len(s) >= 5 /\ SubSeq(s, Len(s) - 4, Len(s)) = "\r\n.\r\n"

\* C8: the message block written to the channel has no LF that does not
\* follow a CR, and ends with a line that is a lone '.'.
BodyNormalized ==
  Len(call.lines) >= 8
    => NoBareLF(call.lines[8]) /\ EndsWithDotLine(call.lines[8])

\* C9: with the mock modem (minimal accepting token to every command, every
\* expected status code) a configured call is about to return true, and the
\* message block is From, To, Subject, MIME-Version, Content-Type, an empty
\* line, the body and the lone '.', every line ended by CR LF.
ScenarioA ==
  (mock /\ pc = "tearDownPDP")
    => /\ ok
       /\ Len(call.lines) >= 8
       /\ call.lines[8] =
            "From: " \o (IF fromName = "" THEN "ESP32" ELSE fromName)
              \o " <" \o gmail \o ">\r\n"
            \o "To: " \o (IF toName = "" THEN "Recipient" ELSE toName)
              \o " <" \o to \o ">\r\n"
            \o "Subject: " \o (IF subject = "" THEN "No Subject" ELSE subject) \o "\r\n"
            \o "MIME-Version: 1.0\r\n"
            \o "Content-Type: text/plain; charset=UTF-8\r\n"
            \o "\r\n" \o body \o "\r\n.\r\n"
       /\ NoBareLF(call.lines[8])

\* C10: when the modem answered AT+NETOPEN with "already opened", bringUpPDP
\* returned success.
BringUpIdempotent == call.already => call.pdp = "ok"

\* the network was still open from an earlier call, and bring-up succeeded
BringUpIdempotentWitness == call.already /\ call.pdp = "ok" /\ netOpen

\* C11: a stage that reported failure had its command sequence issued more
\* than once: bringUpPDP returns failure only after AT+NETOPEN was written at
\* least twice in the call, cchStart only after AT+CCHSTART was.
WholeSequenceRetry ==
  /\ call.pdp = "fail" => Count("AT+NETOPEN") >= 2 /\ Count("ATE0") >= 2
  /\ call.tls = "fail" => Count("AT+CCHSTART") >= 2

\* C12: when the modem answered AT+CCHOPEN with ERROR, without OK and without
\* the open confirmation, cchOpen returned false, the SMTP session is not
\* entered, and the call stops TLS, tears down PDP and returns false.
OpenErrorFails ==
  call.openErr
    => /\ call.open = "fail"
       /\ ~call.session
       /\ pc \in {"cchStop", "tearDownPDP", "idle"}
       /\ Returned => (call.ret = "false" /\ Closes = 0 /\ Stops = 1 /\ NetCloses = 1)

\* C13: once smtpSession has returned, the value sendEmail is about to
\* return is the session's boolean throughout the teardown, whatever the
\* modem answers to AT+CCHCLOSE, AT+CCHSTOP and AT+NETCLOSE; the call
\* returns that boolean, and all three commands have been written.
TeardownIndependent ==
  call.sess # "none"
    => /\ ok <=> call.sess = "true"
       /\ call.ret \in {"none", call.sess}
       /\ Returned => (Closes = 1 /\ Stops = 1 /\ NetCloses = 1)

\* the session succeeded, none of the three teardown commands was answered
\* with OK, and the call returned true
TeardownIndependentWitness ==
  Returned /\ call.sess = "true" /\ call.ret = "true" /\ call.tdFail = 3

\* C14: every sendEmail call that passes the precondition starts with the
\* first command of bring-up and ends with the PDP teardown; when it has
\* returned, the channel, the TLS subsystem and the PDP network are closed in
\* the modem, and no call finds the network still opened by an earlier one.
Reentrant ==
  /\ Len(call.cmds) > 0 => call.cmds[1] = "ATE0"
  /\ ~call.already
  /\ (Returned /\ call.used)
       => /\ NetCloses = 1
          /\ ~chOpen /\ ~tlsOn /\ ~netOpen

\* the Base64 alphabet of RFC 4648, table 1
StdAlphabet == "ABCDEFGHIJKLMNOPQRSTUVWXYZabcdefghijklmnopqrstuvwxyz0123456789+/"

\* the 6-bit value of the character c of the standard alphabet, -1 for others
StdValue(c) ==
  LET i == IndexOf(StdAlphabet, c, 1) IN IF Len(c) = 1 /\ i > 0 THEN i - 1 ELSE -1

\* s is well-formed standard Base64: whole groups of four characters of the
\* alphabet, with one or two '=' only at the end of the last group and the
\* unused bits before them zero
StdValid(s) ==
  /\ Len(s) % 4 = 0
  /\ \A i \in 1..Len(s) :
       \/ StdValue(SubSeq(s, i, i)) >= 0
       \/ /\ SubSeq(s, i, i) = "="
          /\ i >= Len(s) - 1
          /\ i = Len(s) - 1 => SubSeq(s, Len(s), Len(s)) = "="
  /\ (Len(s) > 0 /\ SubSeq(s, Len(s) - 1, Len(s)) = "==")
       => StdValue(SubSeq(s, Len(s) - 2, Len(s) - 2)) % 16 = 0
  /\ (Len(s) > 0 /\ SubSeq(s, Len(s), Len(s)) = "=" /\ SubSeq(s, Len(s) - 1, Len(s) - 1) # "=")
       => StdValue(SubSeq(s, Len(s) - 1, Len(s) - 1)) % 4 = 0

\* standard decoding of a well-formed s, as the sequence of byte values
RECURSIVE StdDecode(_)
StdDecode(s) ==
  IF Len(s) < 4 THEN <<>>
  ELSE LET v(i) == IF SubSeq(s, i, i) = "=" THEN 0 ELSE StdValue(SubSeq(s, i, i))
           n == v(1) * 262144 + v(2) * 4096 + v(3) * 64 + v(4)
           pad == IF SubSeq(s, 3, 4) = "==" THEN 2
                  ELSE IF SubSeq(s, 4, 4) = "=" THEN 1 ELSE 0
           three == <<n \div 65536, (n \div 256) % 256, n % 256>>
       IN SubSeq(three, 1, 3 - pad) \o StdDecode(SubSeq(s, 5, Len(s)))

\* the byte values of the string s
Bytes(s) == [i \in 1..Len(s) |-> Ord(SubSeq(s, i, i))]

\* C15: what b64 returns is well-formed standard Base64 (standard alphabet,
\* padded with '=' to a multiple of four characters, no other character, so
\* no line break), of length 4 * ceil(n / 3), and standard decoding of it
\* gives back the bytes of the argument.
B64RoundTrip ==
  b64out # Null
    => /\ StdValid(OrEmpty(b64out))
       /\ Len(OrEmpty(b64out)) = 4 * ((Len(b64in) + 2) \div 3)
       /\ StdDecode(OrEmpty(b64out)) = Bytes(b64in)

\* b64 has returned for an argument of four bytes, one more than a multiple
\* of three, and the result ends with two '='
B64RoundTripWitness ==
  /\ b64out # Null /\ Len(b64in) = 4
  /\ SubSeq(OrEmpty(b64out), 7, 8) = "=="

\* C16: with the clock advancing, every wait ends, at its token or at its
\* timeout, whatever the modem sends.
WaitsEnd == <>(wpc = "done")

\* C17: sendATCommand drops exactly the bytes that are pending on the link
\* when it is called, writes the command followed by CR LF once, and returns
\* exactly the bytes that arrive after the write, so none of the bytes that
\* were pending is in what it returns.
DrainThenWrite ==
  gx.wrote # <<>>
    => /\ gx.dropped = gx.pending
       /\ gx.wrote = <<gx.cmd \o "\r\n">>
       /\ gx.resp = gx.arrived

\* sendATCommand was called with the late answer of an earlier exchange
\* pending on the link, and the modem answered the new command
DrainThenWriteWitness ==
  /\ gx.wrote # <<>>
  /\ Contains(gx.pending, "READY")
  /\ gx.resp # ""

\* C18: when the answer to AT+CPIN? holds no READY, makeCall and sendSMS
\* return false and AT+CPIN? is all that was written to the modem.
SimGate ==
  (gcall.fn \in {"makeCall", "sendSMS"} /\ gcall.ready = "no")
    => /\ gpc = "idle"
       /\ gcall.ret = "false"
       /\ gcall.sent = <<"AT+CPIN?\r\n">>

\* makeCall returned on a SIM that asks for its PIN
SimGateWitness ==
  /\ gcall.fn = "makeCall" /\ gcall.ready = "no" /\ gcall.ret = "false"
  /\ Contains(gx.resp, "SIM PIN")

\* everything sendSMS(n, m) writes when every step succeeds
SmsWrites(n, m) ==
  <<"AT+CPIN?\r\n", "AT+CMGF=1\r\n", "AT+CMGS=\"" \o n \o "\"\r\n", m, CtrlZ>>

\* C19: what sendSMS has written is a beginning of: SIM query, text mode,
\* AT+CMGS with the number, message, Ctrl+Z; message and Ctrl+Z are written
\* only after the prompt was read; after a failed text-mode set or a missing
\* prompt nothing more is written and false is returned; true is returned
\* only when the final response holds both +CMGS: and OK.
SmsOrder ==
  gcall.fn = "sendSMS"
    => /\ \E n \in PhoneArgs, m \in MessageArgs : IsPrefix(gcall.sent, SmsWrites(n, m))
       /\ Len(gcall.sent) > 3 => (gcall.prompt = "yes" /\ gcall.mode = "yes")
       /\ Len(gcall.sent) > 2 => gcall.mode = "yes"
       /\ gcall.mode = "no" => (gpc = "idle" /\ gcall.ret = "false" /\ Len(gcall.sent) = 2)
       /\ gcall.prompt = "no" => (gpc = "idle" /\ gcall.ret = "false" /\ Len(gcall.sent) = 3)
       /\ gcall.ret = "true"
            => /\ Len(gcall.sent) = 5
               /\ Contains(OrEmpty(gcall.final), "+CMGS:")
               /\ Contains(OrEmpty(gcall.final), "OK")

\* sendSMS wrote the message after the prompt and returned true
SmsOrderWitness ==
  /\ gcall.fn = "sendSMS" /\ gcall.ret = "true" /\ gcall.prompt = "yes"
  /\ gcall.sent[4] = "hi" /\ gcall.sent[5] = CtrlZ

\* C20: getSignalStrength returns -999 or a value in -113..-51; for a
\* reported RSSI r in 0..31 it returns -113 + 2r; for a SIM that is not
\* ready, for an answer without a readable +CSQ report or RSSI, and for an
\* RSSI outside 0..31, it returns -999.
SignalRange ==
  (gcall.fn = "getSignalStrength" /\ gcall.ret = "int")
    => /\ gcall.val = -999 \/ (gcall.val >= -113 /\ gcall.val <= -51)
       /\ gcall.ready = "no" => gcall.val = -999
       /\ \A r \in RssiVals :
            gcall.csq = Dec(r)
              => gcall.val = IF r <= 31 THEN -113 + 2 * r ELSE -999
       /\ gcall.csq \in {"garbled", "cut", "error", "silent"} => gcall.val = -999

\* C21: a call of updateSignal or updateNetwork asks the modem only when
\* it is forced or more than UPDATE_INTERVAL ms have passed since lastUpdate
\* was set; a call without force made no more than UPDATE_INTERVAL ms after
\* lastUpdate asks nothing and leaves the whole cache, lastUpdate included,
\* as it was; a call that asks sets lastUpdate to millis() at its return.
CacheGate ==
  clast.fn # "none"
    => /\ clast.queried => (clast.force \/ clast.age > UPDATE_INTERVAL)
       /\ (~clast.force /\ clast.age <= UPDATE_INTERVAL)
            => (~clast.queried /\ gsmCache = clast.before)
       /\ clast.queried => gsmCache.lastUpdate = clast.end

\* a call without force exactly UPDATE_INTERVAL ms after an update that
\* filled the cache, with millis() wrapped round in between, asked nothing
CacheGateWitness ==
  /\ clast.fn = "updateSignal" /\ ~clast.force /\ clast.age = UPDATE_INTERVAL
  /\ ~clast.queried /\ gsmCache.signalStrength # -999
  /\ Lt32(cnow, gsmCache.lastUpdate)

\* C22: a confirmed press that finds the press count at 0 leaves
\* drdConfigMode as it is, and when the next confirmed press comes less than
\* DRD_DOUBLE_PRESS_TIME after it, that one toggles drdConfigMode, once.
DoublePressToggles ==
  /\ (bhist.last.n > 0 /\ bhist.last.count = 0)
       => bhist.last.after = bhist.last.before
  /\ (bhist.prev.n > 0 /\ bhist.prev.count = 0
        /\ bhist.last.t - bhist.prev.t < DRD_DOUBLE_PRESS_TIME)
       => /\ bhist.last.before = bhist.prev.before
          /\ bhist.last.after = ~bhist.prev.before
          /\ btn.drdConfigMode = ~bhist.prev.before

\* C23: in a boot that began without a stored flag, detectDoubleReset
\* returns false and leaves the flag stored with count 1; in a boot that
\* follows such a boot, with the flag still stored and less than the timeout
\* really passed between the two calls, it returns true, leaves no key
\* stored, and wasDoubleResetDetected() is true.
DoubleResetDetected ==
  (mgr.ret # "none" /\ boots.opened)
    => /\ ~boots.flag
            => /\ mgr.ret = "false"
               /\ isKey(prefs, "flag") => getUInt(prefs, "count", 0) = 1
               /\ boots.up < DrdTimeoutMs => isKey(prefs, "flag")
       /\ (boots.armed /\ boots.since < DrdTimeoutMs)
            => /\ mgr.ret = "true"
               /\ prefs = NoPrefs
               /\ mgr.doubleResetDetected

\* C24: cchSendRaw writes the data exactly when its wait after the prepare
\* command found the prompt; without the prompt it returns false and has
\* written no data; it returns true only when the data were written and the
\* wait after them found OK.
PromptGated ==
  /\ call.sx.sent
       => /\ call.sx.wrote <=> call.sx.prompted
          /\ ~call.sx.prompted => ~call.sx.ok
          /\ call.sx.ok => (call.sx.wrote /\ call.sx.acked)
  /\ Len(call.lines) = call.prompts
  /\ call.sendOk <= call.prompts
  /\ Len(call.reqs) = call.sendReq

\* after sends that went through, one got no prompt: it returned false and
\* its data were not written
PromptGatedWitness ==
  /\ call.sx.sent /\ ~call.sx.prompted /\ ~call.sx.ok
  /\ call.sendReq >= 2 /\ Len(call.lines) = call.sendReq - 1

\* C25: the k-th prepare command announces the length of the k-th block
\* written, which for the lines is the length of the text plus 2; the
\* message (headers, empty line, body, end-of-data line) is one block, the
\* eighth, and no other block holds any of it.
AnnouncedIsWritten ==
  /\ \A k \in 1..Len(call.lines) :
       call.reqs[k] = "AT+CCHSEND=0," \o Dec(Len(call.lines[k]))
  /\ Len(call.lines) <= 9
  /\ pc # "idle"
       => /\ \A k \in 1..Len(call.lines) :
               /\ call.lines[k] = FixedLine(k)
               /\ k # 8 => /\ EndsWith(call.lines[k], "\r\n")
                           /\ ~Contains(call.lines[k], "Subject: ")
          /\ Len(call.lines) >= 8
               => /\ StartsWith(call.lines[8], "From: ")
                  /\ Contains(call.lines[8], "\r\n\r\n" \o body \o "\r\n.\r\n")

\* the message has been written as the eighth block, after its length was
\* announced
AnnouncedIsWrittenWitness ==
  /\ Len(call.lines) >= 8 /\ call.sx.ok
  /\ call.reqs[8] = "AT+CCHSEND=0," \o Dec(Len(Payload))

\* the place of the control command c among those written, 0: not written
Pos(c) ==
  LET found == {i \in 1..Len(call.cmds) : call.cmds[i] = c}
  IN IF found = {} THEN 0 ELSE CHOOSE i \in found : \A j \in found : i <= j

\* C26: AT+NETOPEN is written before AT+CCHSTART, that before AT+CCHOPEN,
\* that before anything of the SMTP session; no teardown command is written
\* while the session runs; after the session AT+CCHCLOSE, AT+CCHSTOP and
\* AT+NETCLOSE are written in this order; after a failed TLS start only
\* AT+NETCLOSE is written; after a failed channel open AT+CCHSTOP, then
\* AT+NETCLOSE, and no AT+CCHCLOSE.
StageOrder ==
  LET netopen == Pos("AT+NETOPEN")
      start == Pos("AT+CCHSTART")
      open == Pos("AT+CCHOPEN=0,\"smtp.gmail.com\",465")
      close == Pos("AT+CCHCLOSE=0")
      stop == Pos("AT+CCHSTOP")
      netclose == Pos("AT+NETCLOSE")
      last == Len(call.cmds)
  IN /\ start > 0 => (0 < netopen /\ netopen < start)
     /\ open > 0 => (0 < start /\ start < open)
     /\ (call.session \/ call.sendReq > 0 \/ pc \in {"smtpExpect", "cchSendRaw"})
          => (open > 0 /\ (open = last \/ close = open + 1))
     /\ pc \in {"smtpExpect", "cchSendRaw"} => (close = 0 /\ stop = 0 /\ netclose = 0)
     /\ close > 0 => (call.sess # "none" /\ open > 0)
     /\ stop > 0 => (close = stop - 1 \/ (close = 0 /\ open = stop - 1))
     /\ netclose > 0 => (stop = netclose - 1 \/ (stop = 0 /\ start = netclose - 1))
     /\ netclose > 0 => netclose = last
     /\ (Returned /\ call.sess # "none")
          => (close = open + 1 /\ stop = close + 1 /\ netclose = stop + 1)
     /\ call.tls = "fail"
          => /\ open = 0 /\ close = 0 /\ stop = 0
             /\ Returned => netclose = start + 1
     /\ call.open = "fail"
          => /\ close = 0 /\ ~call.session
             /\ Returned => (stop = open + 1 /\ netclose = stop + 1)
     /\ (Returned /\ call.pdp = "fail") => netopen = last

\* a call whose channel open failed has returned after AT+CCHSTOP and
\* AT+NETCLOSE
StageOrderWitness ==
  /\ Returned /\ call.open = "fail"
  /\ Pos("AT+CCHSTOP") > 0 /\ Pos("AT+NETCLOSE") = Pos("AT+CCHSTOP") + 1
  /\ Pos("AT+CCHCLOSE=0") = 0

\* C27: AT writes its command line exactly once, with no retry after a wait
\* that failed, and returns true exactly when the expected token is in the
\* bytes its wait accumulated; when the time runs out the wait has read all
\* that arrived, without the token, and AT returns false.
AtOnce ==
  /\ \A i, j \in 1..Len(call.cmds) : call.cmds[i] = call.cmds[j] => i = j
  /\ call.ax.fn = "AT" =>
       /\ call.ax.writes = 1
       /\ Len(call.cmds) > 0 /\ call.cmds[Len(call.cmds)] = call.ax.cmd
       /\ call.ax.ok <=> Contains(call.ax.read, call.ax.tokens[1])
       /\ call.ax.ok <=> Contains(call.ax.seen, call.ax.tokens[1])
       /\ ~call.ax.ok => call.ax.read = call.ax.seen

\* the modem answered a command of AT with ERROR: AT returned false
AtOnceWitness ==
  /\ call.ax.fn = "AT"
  /\ ~call.ax.ok
  /\ Contains(call.ax.seen, "ERROR")
  /\ call.ax.cmd = "AT+CCHSTOP"

\* a non-empty token of the last exchange is in s
Hit(s) ==
  \E i \in 1..Len(call.ax.tokens) :
    call.ax.tokens[i] # "" /\ Contains(s, call.ax.tokens[i])

\* C28: ATAcceptAny writes its command line once and returns true exactly when
\* a non-empty token is in the bytes that arrive before the timeout; it
\* returns at the byte that completes the earliest token, and on a timeout it
\* has read all that arrived and returns false.
AcceptAny ==
  call.ax.fn = "ATAcceptAny" =>
    /\ call.ax.writes = 1
    /\ call.ax.ok <=> Hit(call.ax.seen)
    /\ call.ax.ok => /\ Hit(call.ax.read)
                     /\ ~Hit(SubSeq(call.ax.read, 1, Len(call.ax.read) - 1))
    /\ ~call.ax.ok => call.ax.read = call.ax.seen

\* two tokens are in the modem's answer and ATAcceptAny returned at the
\* earlier one, leaving the other unread
AcceptAnyWitness ==
  /\ call.ax.fn = "ATAcceptAny"
  /\ call.ax.ok
  /\ \E i, j \in 1..Len(call.ax.tokens) :
       /\ i # j
       /\ Contains(call.ax.read, call.ax.tokens[i])
       /\ ~Contains(call.ax.read, call.ax.tokens[j])
       /\ Contains(call.ax.seen, call.ax.tokens[j])

\* C29: when cchRecvChunk returns true, its output is every byte read from
\* the link since the call began, over all poll rounds, up to the marker and
\* the bytes drained after it.
RecvKeepsAll == call.rcv.ok => call.rcv.out = call.rcv.all

\* C30: cchRecvChunk returns true only with the marker in its output, writes
\* no receive command once the marker is in the output, writes successive
\* receive commands at least the poll interval apart, and returns false only
\* when the timeout has passed without the marker.
RecvPolling ==
  /\ rcall.ret = "true" => rcall.seen
  /\ rcall.late = 0
  /\ rcall.cmds >= 2 => rcall.gapAt >= POLL_INTERVAL_MS
  /\ rcall.ret = "false" => ~rcall.seen /\ rcall.elapsed >= RecvMs

\* the positions of chunk at which a CR LF begins
Breaks(chunk) == {p \in 1..(Len(chunk) - 1) : SubSeq(chunk, p, p + 1) = CRLF}

\* the end of the record of chunk that begins at position from
RecordEnd(chunk, from) ==
  LET after == {p \in Breaks(chunk) : p >= from}
  IN IF after = {} THEN Len(chunk)
     ELSE (CHOOSE p \in after : \A q \in after : p <= q) - 1

\* the records of chunk: the pieces before, between and after its CR LFs
Records(chunk) ==
  {SubSeq(chunk, from, RecordEnd(chunk, from)) :
     from \in {1} \cup {p + 2 : p \in Breaks(chunk)}}

\* C31: smtpExpect makes one receive and no send, and returns true exactly
\* when the receive returned a chunk and one of the chunk's records between
\* CR LFs is, once trimmed, non-empty and begins with the code; after a
\* receive that timed out, and with no such record, it returns false.
ExpectScan ==
  [][pc = "smtpExpect" =>
       /\ call'.recvs = call.recvs + 1
       /\ call'.sendReq = call.sendReq
       /\ call'.reqs = call.reqs
       /\ call'.lines = call.lines
       /\ call'.cmds = call.cmds
       /\ call'.rcv.hit <=>
            /\ call'.rcv.ok
            /\ \E rec \in Records(call'.rcv.out) :
                 Trim(rec) # "" /\ StartsWith(Trim(rec), call'.rcv.code)]_vars

\* smtpExpect returned true on a chunk whose first non-empty record is the
\* modem's OK, not the status line
ExpectScanWitness ==
  /\ call.rcv.hit
  /\ ~mock
  /\ StartsWith(call.rcv.out, "\r\nOK\r\n")
  /\ call.recvs = 2

\* the commands of a bring-up with the APN a: echo off, verbose errors, with
\* an APN the context definition and the socket binding, network open
PdpShape(a) ==
  IF a # ""
  THEN <<"ATE0", "AT+CMEE=2", "AT+CGDCONT=1,\"IP\",\"" \o a \o "\"",
         "AT+CSOCKSETPN=1", "AT+NETOPEN">>
  ELSE <<"ATE0", "AT+CMEE=2", "AT+NETOPEN">>

\* C32: bringUpPDP writes echo off, verbose errors, then, only when an APN is
\* set, the context definition with the APN and the socket binding, then
\* network open; echo off, verbose errors and network open are written in
\* every bring-up, the socket binding only together with the context
\* definition.
PdpOrder ==
  /\ pc = "bringUpPDP" => IsPrefix(call.cmds, PdpShape(apn))
  /\ call.pdp # "none" =>
       \E a \in {OrEmpty(x) : x \in ApnArgs} :
         /\ pc # "idle" => a = apn
         /\ IsPrefix(PdpShape(a), call.cmds)
  /\ call.pdp # "none" =>
       Count("AT+CSOCKSETPN=1") = Cardinality({i \in 1..Len(call.cmds) :
                                    StartsWith(call.cmds[i], "AT+CGDCONT=")})

\* a bring-up without an APN has written network open without the context
\* definition and without the socket binding
PdpOrderWitness ==
  /\ call.pdp = "ok" /\ pc = "cchStart" /\ apn = ""
  /\ Count("AT+NETOPEN") = 1
  /\ Count("AT+CSOCKSETPN=1") = 0

\* C32 as stated: the socket binding and network open are written in every
\* bring-up
PdpBindsAlways ==
  call.pdp # "none" => Count("AT+CSOCKSETPN=1") = 1 /\ Count("AT+NETOPEN") = 1

\* C33: a wait of AT or ATAcceptAny succeeds only on the modem's answer to
\* the command just written: when it returns true, one of its tokens is in
\* the bytes the modem sent in reply to this command.
ExchangesIsolated ==
  call.ax.ok =>
    \E i \in 1..Len(call.ax.tokens) : Contains(call.ax.own, call.ax.tokens[i])

\* C34: bringUpPDP returns what its AT+NETOPEN exchange returned and cchStart
\* what its AT+CCHSTART exchange returned: a configuration command that fails
\* or times out before it neither ends the function nor changes the result.
ConfigDropped ==
  /\ (call.ax.fn = "AT" /\ call.tls = "none" /\ call.pdp = "none")
       => pc = "bringUpPDP"
  /\ (call.ax.fn = "AT" /\ call.tls = "none" /\ call.pdp = "ok") => pc = "cchStart"
  /\ call.ax.cmd = "AT+NETOPEN"
       => /\ call.pdp = (IF call.ax.ok THEN "ok" ELSE "fail")
          /\ pc = (IF call.ax.ok THEN "cchStart" ELSE "idle")
  /\ call.ax.cmd = "AT+CCHSTART"
       => call.tls = (IF call.ax.ok THEN "ok" ELSE "fail")

\* bringUpPDP returned true although one of its configuration commands was
\* answered with ERROR
ConfigDroppedWitness ==
  /\ call.ax.cmd = "AT+NETOPEN"
  /\ call.cfgFail
  /\ call.pdp = "ok"
  /\ pc = "cchStart"

\* the end-of-data sequence of SMTP
EndOfData == "\r\n.\r\n"

\* C35: in the composed message block the end-of-data sequence CR LF '.'
\* CR LF occurs once, as the last five bytes, whatever the body.
EndOfDataOnce ==
  call.lines # <<>> =>
    /\ EndsWith(call.lines[1], EndOfData)
    /\ IndexOf(call.lines[1], EndOfData, 1) = Len(call.lines[1]) - 4

\* the strings a setter stores for the arguments args: the empty string for
\* the null pointer, the text pointed to otherwise
Stored(args) == {IF a = Null THEN "" ELSE a[1] : a \in args}

\* C36: no step of sendEmail, whatever its outcome, changes the APN, account,
\* credential, recipient address and name, sender name, subject or body; only
\* a setter changes them, outside a call, and what it stores is its argument,
\* the empty string for a null pointer.
ConfigFrame ==
  [][/\ (pc # "idle" \/ pc' # "idle" \/ call' # call) => cfgVars' = cfgVars
     /\ cfgVars' # cfgVars =>
          /\ pc = "idle" /\ pc' = "idle" /\ call' = call /\ nSet' = nSet + 1
          /\ apn' = apn \/ apn' \in Stored(ApnArgs)
          /\ gmail' = gmail \/ gmail' \in Stored(AccountArgs)
          /\ appPass' = appPass \/ appPass' \in Stored(CredentialArgs)
          /\ to' = to \/ to' \in Stored(RecipientArgs)
          /\ toName' = toName \/ toName' \in Stored(NameArgs)
          /\ fromName' = fromName \/ fromName' \in Stored(NameArgs)
          /\ subject' = subject \/ subject' \in SubjectArgs
          /\ body' = body \/ body' \in BodyArgs]_vars

\* sendEmail has returned true and the configuration is the one that was set
\* before the call
ConfigFrameWitness ==
  /\ Returned /\ call.ret = "true"
  /\ gmail = "user@example.com" /\ appPass = "app-pass" /\ to = "dest@example.com"
  /\ body # ""

\* the interrupt handler took the falling edge in DRD_IDLE, the button was held
\* longer than the debounce time, let go, and has stayed up longer than the
\* debounce time
HeldAndReleased ==
  /\ bhist.phys.down > 0
  /\ btn.drdPressStartTime = bhist.phys.down
  /\ bhist.phys.up - bhist.phys.down > DRD_DEBOUNCE_TIME
  /\ pin = "HIGH"
  /\ bnow - bhist.phys.up > DRD_DEBOUNCE_TIME

\* C37: whichever way the interrupt handler and checkDRD interleave, a press
\* that was held longer than the debounce time and then left released longer
\* than the debounce time is never confirmed twice, and once the state machine
\* is back in DRD_IDLE processButtonPress has run exactly once for it
PressConfirmedOnce ==
  HeldAndReleased =>
    /\ bhist.phys.confirms <= 1
    /\ btn.drdButtonState = "DRD_IDLE" => bhist.phys.confirms = 1

\* the fields the last call is about were stale when it was made: never
\* fetched, or fetched more than the interval ago
OwnFieldsStale ==
  \/ clast.fn = "updateSignal"
       /\ (clast.sigAge = -1 \/ clast.sigAge > UPDATE_INTERVAL)
  \/ clast.fn = "updateNetwork"
       /\ (clast.netAge = -1 \/ clast.netAge > UPDATE_INTERVAL)

\* C38: a call of updateSignal or updateNetwork without forceRefresh asks the
\* modem whenever its own fields have not been fetched within the interval,
\* whatever the other function has refreshed in the meantime, the first calls
\* after boot included
EachRefreshedWhenStale ==
  (~clast.force /\ OwnFieldsStale) => clast.queried

\* C39: what b64 returns with its 32-bit accumulator, which wraps modulo 2^32
\* as bytes are shifted in, is what the same encoder returns with an
\* accumulator that never loses a bit
AccumulatorWidth ==
  b64out # Null => OrEmpty(b64out) = b64Wide(b64in)

\* b64 has returned for an argument of five bytes: the first byte has been
\* shifted out of the 32-bit accumulator and is still in the unbounded one
AccumulatorWidthWitness ==
  /\ b64out # Null /\ Len(b64in) = 5
  /\ Len(WideValAfter(b64in)) = 3
  /\ WideValAfter(b64in)[3] > 0
  /\ ValAfter(b64in).lo = WideValAfter(b64in)[1]
  /\ ValAfter(b64in).hi = WideValAfter(b64in)[2]

====
